---- MODULE Spec2Model ----
(***************************************************************************)
(* Verification model of smol2 (PyMOL-style protein cartoon viewer).       *)
(*                                                                         *)
(* Subsystems, each with its own specification over the shared variables:  *)
(*   SpecSmooth   SecondaryStructureAnalyzer.smoothAssignments             *)
(*   SpecScores   SecondaryStructureAnalyzer.applyGeometryAssignments, then *)
(*                smoothAssignments                                         *)
(*   SpecParse    PDBParser.parse on arbitrary ATOM/HETATM lines            *)
(*   SpecMalformed  PDBParser.parse on lines with unparseable numbers       *)
(*   SpecHeader   PDBParser.parse of two chains, pass by pass               *)
(*   SpecLabels   PDBParser.parse of one chain with HELIX/SHEET records,    *)
(*                then SecondaryStructureAnalyzer.analyzeChain              *)
(*   SpecCartoon  PDBParser.parse, then CartoonGenerator.generateCartoon    *)
(*   SpecExtrude  CartoonShapes.circle and generateGeometry                 *)
(*   SpecFrames   CartoonGenerator.minimizeFrameTwisting                    *)
(*   SpecFrenet   CartoonGenerator.computeFrenetFrames                      *)
(*   SpecRuns     CartoonGenerator.generateSmoothCurves, frames per group   *)
(*   SpecSpan     BSplineCurve.getPointAt                                   *)
(*   SpecCache    BSplineCurve tangent cache over two curve instances       *)
(*   SpecRibbon   RibbonGeometryGenerator segments and segment meshes       *)
(*   SpecHanded   minimizeFrameTwisting on right-handed frames              *)
(*   SpecLoadFail ProteinRenderer.addProtein calls that succeed or throw    *)
(*   SpecArc      BSplineCurve.getParameterByArcLength and sampleUniform    *)
(*   SpecProteins ProteinRenderer.addProtein/removeProtein/clearAllProteins *)
(*   SpecConsole  ProteinViewer.processCommand and the command history      *)
(***************************************************************************)
EXTENDS Integers, Sequences, FiniteSets, TLC

(***************************************************************************)
(* Bounds of the model                                                     *)
(***************************************************************************)
MaxLen == 10
MaxAtomLines == 2
MaxRes == 5
MaxGenCalls == 2
MaxSides == 8
MaxSamples == 6
MaxFrames == 3
MaxPoints == 3
MaxCalls == 4
MaxCommands == 3
MaxScores == 2
MaxSeq == 3
MaxRuns == 2
MaxControlPoints == 6
TUnit == 6
MaxSplineCalls == 4
MaxRibbonResidues == 5
MaxSubdivisions == 3
MaxChord == 2
MaxArcSamples == 3

(***************************************************************************)
(* Program constants                                                       *)
(***************************************************************************)
HelixMinLength == 4
SheetMinLength == 3
MaxGapLength == 2

SSLabels == {"helix", "sheet", "coil"}

VARIABLES
    assignments,    \* smoothing: the assignment labels handed to smoothAssignments
    smoothed,       \* smoothing: the labels smoothAssignments returned
    pcSmooth,       \* smoothing: "input" before the call, "done" after it
    geometryScores, \* analyzer: the scores given to applyGeometryAssignments
    pdbText,        \* parser: the text given to parse(), as its ATOM/HETATM,
                    \*         HELIX and SHEET lines
    atoms,          \* parser: this.atoms
    residues,       \* parser: this.residues (chains refer to them by index)
    chains,         \* parser: this.chains
    ligands,        \* parser: this.ligands
    helices,        \* parser: this.helices
    sheets,         \* parser: this.sheets
    pcParse,        \* parser: "new" after construction, "parsed" after parse()
    genMeshes,      \* cartoon generator: this.meshes
    genExtrudes,    \* cartoon generator: this.extrudes
    lastResult,     \* cartoon generator: the list the last generateCartoon returned
    lastChainId,    \* cartoon generator: the chain id of that call, "none" before
    genCalls,       \* cartoon generator: number of generateCartoon calls so far
    analyzed,       \* analyzer: ids of the chains analyzeChain has been called on
    exSides,        \* extrusion: n of CartoonShapes.circle(extrude, n, size)
    exSamples,      \* extrusion: number of curve samples (extrude.n)
    exGeometry,     \* extrusion: what generateGeometry returned
    pcExtrude,      \* extrusion: "input", then "done"; "idle" when unused
    curvePoints,    \* the sample points given to computeFrenetFrames
    framesIn,       \* the frames as they were given to minimizeFrameTwisting
    frames,         \* the frames array, changed in place by minimizeFrameTwisting
    pcFrames,       \* frames: "input", then "done"; "idle" when unused
    groupPoints,    \* the points of each group given to generateSmoothCurves
    curveFrames,    \* the frames of the curve generateSmoothCurves made of each
    proteins,       \* renderer: this.proteins, its values in insertion order
    nextProteinPosition, \* renderer: this.nextProteinPosition
    showCartoon,    \* renderer: this.showCartoon
    showBackbone,   \* renderer: this.showBackbone
    showSticks,     \* renderer: this.showSticks
    showSpheres,    \* renderer: this.showSpheres
    removed,        \* renderer: what the last removeProtein call returned,
                    \*           "true" or "false"; "none" before any call
    calls,          \* renderer: the protein operations called so far
    commandHistory, \* viewer: this.commandHistory
    storedHistory,  \* viewer: localStorage proteinViewer_commandHistory
    lastCommand,    \* viewer: the command processCommand ran last, <<>> if none
    commandsRun,    \* viewer: number of processCommand calls so far
    controlPoints,  \* spline: this.controlPoints of the curve
    tQuery,         \* spline: the t given to getPointAt, in TUnit-ths
    pointAt,        \* spline: what getPointAt read and evaluated
    pcSpline,       \* spline: "call", then "done"; "idle" when unused
    arrays,         \* spline: the arrays of control points, by array id
    splineCurves,   \* spline: controlPoints (an array id) and _tangentCache of
                    \*         each BSplineCurve instance
    lastTangent,    \* spline: the curve, t and result of the last getTangentAt
    splineLog,      \* spline: the calls made on the curves so far
    added,          \* renderer: what the last addProtein call returned,
                    \*           "true" or "false"; "none" before any call
    ribbonSegments, \* ribbon: the segments generateSegments made last
    ribbonMeshes,   \* ribbon: the vertex data of the meshes createRibbonMeshes
                    \*         made of them
    pcRibbon,       \* ribbon: "input", then "done"; "idle" when unused
    arcChords,      \* arc length: the chord lengths of the curve's subdivisions
    arcTarget,      \* arc length: the targetLength of getParameterByArcLength
    arcParameter,   \* arc length: what getParameterByArcLength returned
    arcSamples,     \* arc length: the parameters sampleUniform evaluated at
    pcArc           \* arc length: "input", then "done"; "idle" when unused

varsSmooth == <<assignments, smoothed, pcSmooth, geometryScores>>
varsParse == <<pdbText, atoms, residues, chains, ligands, helices, sheets, pcParse>>

varsExtrude == <<exSides, exSamples, exGeometry, pcExtrude>>

varsFrames == <<curvePoints, framesIn, frames, pcFrames, groupPoints, curveFrames>>

varsGen == <<genMeshes, genExtrudes, lastResult, lastChainId, genCalls>>

varsRenderer == <<proteins, nextProteinPosition, showCartoon, showBackbone,
                  showSticks, showSpheres, removed, calls, added>>

varsConsole == <<commandHistory, storedHistory, lastCommand, commandsRun>>

varsSpline == <<controlPoints, tQuery, pointAt, pcSpline,
                arrays, splineCurves, lastTangent, splineLog>>

varsRibbon == <<ribbonSegments, ribbonMeshes, pcRibbon>>

varsArc == <<arcChords, arcTarget, arcParameter, arcSamples, pcArc>>

vars == <<assignments, smoothed, pcSmooth, geometryScores,
          pdbText, atoms, residues, chains, ligands, helices, sheets, pcParse,
          genMeshes, genExtrudes, lastResult, lastChainId, genCalls,
          analyzed, exSides, exSamples, exGeometry, pcExtrude,
          curvePoints, framesIn, frames, pcFrames, groupPoints, curveFrames,
          proteins, nextProteinPosition, showCartoon, showBackbone,
          showSticks, showSpheres, removed, calls,
          commandHistory, storedHistory, lastCommand, commandsRun,
          controlPoints, tQuery, pointAt, pcSpline,
          arrays, splineCurves, lastTangent, splineLog, added,
          ribbonSegments, ribbonMeshes, pcRibbon,
          arcChords, arcTarget, arcParameter, arcSamples, pcArc>>

(***************************************************************************)
(* SecondaryStructureAnalyzer: smoothing pass                              *)
(* Sequences are 1-based here; the source's index i is i+1 below.          *)
(***************************************************************************)

\* the inner loop "for j = runStart .. runStart+currentRun-1: assignment = 'coil'"
ConvertRunToCoil(a, runStart, currentRun) ==
    [j \in 1..Len(a) |->
        IF j >= runStart /\ j < runStart + currentRun THEN "coil" ELSE a[j]]

RECURSIVE EnforceLoop(_, _, _, _, _, _, _)
EnforceLoop(a, ssType, minLength, i, last, currentRun, runStart) ==
    IF i > last THEN a
    ELSE
        LET isType == i <= Len(a) /\ a[i] = ssType IN
        IF isType
        THEN EnforceLoop(a, ssType, minLength, i + 1, last, currentRun + 1,
                         IF currentRun = 0 THEN i ELSE runStart)
        ELSE LET a2 == IF currentRun > 0 /\ currentRun < minLength
                       THEN ConvertRunToCoil(a, runStart, currentRun)
                       ELSE a
             IN EnforceLoop(a2, ssType, minLength, i + 1, last, 0, runStart)

\* a plausible slip: the loop stops at i < length, so a short run that ends
\* at the last residue is never closed
enforceMinimumLength_NoTail(a, ssType, minLength) ==
    EnforceLoop(a, ssType, minLength, 1, Len(a), 0, 0)

\* for (i = 0; i <= assignments.length; i++) ...
enforceMinimumLength(a, ssType, minLength) ==
    EnforceLoop(a, ssType, minLength, 1, Len(a) + 1, 0, 0)

\* first loop of fillShortGaps: single coil residues between equal labels
RECURSIVE FillSingleLoop(_, _)
FillSingleLoop(a, i) ==
    IF i > Len(a) - 1 THEN a
    ELSE
        LET prev == a[i - 1]
            current == a[i]
            next == a[i + 1]
        IN IF current = "coil" /\ prev = next /\ prev # "coil"
           THEN FillSingleLoop([a EXCEPT ![i] = prev], i + 1)
           ELSE FillSingleLoop(a, i + 1)

\* inner loop of the second part: positions i .. length-gapSize-1 (0-based),
\* here i+1 .. Len-gapSize
RECURSIVE FillGapLoop(_, _, _)
FillGapLoop(a, gapSize, i) ==
    IF i > Len(a) - gapSize THEN a
    ELSE
        LET before == a[i - 1]
            after == a[i + gapSize]
            allCoil == \A j \in 0..(gapSize - 1) : a[i + j] = "coil"
        IN IF allCoil /\ before = after /\ before # "coil"
           THEN FillGapLoop([k \in 1..Len(a) |->
                                IF k >= i /\ k < i + gapSize THEN before ELSE a[k]],
                            gapSize, i + 1)
           ELSE FillGapLoop(a, gapSize, i + 1)

\* for (gapSize = 2; gapSize <= maxGapLength; gapSize++)
RECURSIVE FillGapSizes(_, _, _)
FillGapSizes(a, gapSize, maxGapLength) ==
    IF gapSize > maxGapLength THEN a
    ELSE FillGapSizes(FillGapLoop(a, gapSize, gapSize + 1), gapSize + 1, maxGapLength)

\* a plausible slip: only the single-residue loop, the gapSize loop is missing
fillShortGaps_SingleOnly(a, maxGapLength) ==
    FillSingleLoop(a, 2)

fillShortGaps(a, maxGapLength) ==
    FillGapSizes(FillSingleLoop(a, 2), 2, maxGapLength)

smoothAssignments(a) ==
    fillShortGaps(
        enforceMinimumLength(
            enforceMinimumLength(a, "helix", HelixMinLength),
            "sheet", SheetMinLength),
        MaxGapLength)

(***************************************************************************)
(* PDBParser (spline-math.js)                                              *)
(*                                                                         *)
(* A text is modelled by its lines: atomLines (ATOM/HETATM), helixLines    *)
(* and sheetLines, each in file order.  parse() keeps three independent    *)
(* lists, so only the order within each kind matters.  A line carries its  *)
(* parsed column values.  The coordinates of an atom enter the labels only *)
(* through the distance to the next CA atom of the chain (d, in tenths of  *)
(* an Angstrom) and the turn angle at the atom (turn, in degrees); a line  *)
(* carries these two instead of x, y, z.                                   *)
(***************************************************************************)
NoText == [atomLines |-> <<>>, helixLines |-> <<>>, sheetLines |-> <<>>]

\* localeCompare on the chain ids of the model
ChainOrder == <<"A", "B">>
ChainRank(c) == CHOOSE k \in 1..Len(ChainOrder) : ChainOrder[k] = c

ProteinResidueNames ==
    {"ALA", "ARG", "ASN", "ASP", "CYS", "GLN", "GLU", "GLY", "HIS", "ILE",
     "LEU", "LYS", "MET", "PHE", "PRO", "SER", "THR", "TRP", "TYR", "VAL",
     "MSE", "SEP", "TPO", "PTR", "MLY", "M3L", "HOH"}

NucleicResidueNames ==
    {"A", "G", "C", "T", "U", "DA", "DG", "DC", "DT",
     "ADE", "GUA", "CYT", "THY", "URA"}

isProteinResidue(resName) == resName \in ProteinResidueNames
isNucleicResidue(resName) == resName \in NucleicResidueNames

\* the atom object of one ATOM/HETATM line; idx is its position in this.atoms
parseAtom(line, idx) ==
    [idx |-> idx,
     idNaN |-> (line.serial = "text"),
     xyzNaN |-> (line.xyz = "text"),
     name |-> line.name,
     resName |-> line.resName,
     chainId |-> line.chainId,
     resSeq |-> line.resSeq,
     iCode |-> line.iCode,
     d |-> line.d,
     turn |-> line.turn,
     torsion |-> line.torsion,
     isHetAtom |-> (line.rec = "HETATM")]

\* a plausible slip: a line with a field that is no number is skipped
ParseAtoms_SkipMalformed(lines) ==
    LET Good(line) == line.serial = "num" /\ line.xyz = "num"
        kept == SelectSeq(lines, Good)
    IN [i \in 1..Len(kept) |-> parseAtom(kept[i], i)]

ParseAtoms(lines) == [i \in 1..Len(lines) |-> parseAtom(lines[i], i)]

\* a plausible slip: the insertion code is left out of the key
resKey_NoICode(atom) == atom.chainId \o "_" \o ToString(atom.resSeq)

\* const resKey = `${atom.chainId}_${atom.resSeq}_${atom.iCode}`
resKey(atom) == atom.chainId \o "_" \o ToString(atom.resSeq) \o "_" \o atom.iCode

\* the keys of atomMap in insertion order, each given by the index of the
\* first atom that has it
RECURSIVE FirstOfKey(_, _)
FirstOfKey(as, i) ==
    IF i > Len(as) THEN <<>>
    ELSE IF \E j \in 1..(i - 1) : resKey(as[j]) = resKey(as[i])
         THEN FirstOfKey(as, i + 1)
         ELSE <<i>> \o FirstOfKey(as, i + 1)

\* atomMap.get(key): the atoms pushed under the key of atom `first`, in order
RECURSIVE AtomsOfKey(_, _, _)
AtomsOfKey(as, first, i) ==
    IF i > Len(as) THEN <<>>
    ELSE IF resKey(as[i]) = resKey(as[first])
         THEN <<i>> \o AtomsOfKey(as, first, i + 1)
         ELSE AtomsOfKey(as, first, i + 1)

\* atoms.find(a => a.name === name): index of the first such atom, 0 if none
RECURSIVE FindAtom(_, _, _)
FindAtom(as, idxs, name) ==
    IF idxs = <<>> THEN 0
    ELSE IF as[Head(idxs)].name = name THEN Head(idxs)
         ELSE FindAtom(as, Tail(idxs), name)

\* the residue object built from one atomMap entry
NewResidue(as, first) ==
    LET firstAtom == as[first]
        own == AtomsOfKey(as, first, 1)
        prot == isProteinResidue(firstAtom.resName)
    IN [chainId |-> firstAtom.chainId,
        resSeq |-> firstAtom.resSeq,
        iCode |-> firstAtom.iCode,
        resName |-> firstAtom.resName,
        atoms |-> own,
        secondaryStructure |-> "coil",
        isProtein |-> prot,
        isNucleic |-> isNucleicResidue(firstAtom.resName),
        isWater |-> (firstAtom.resName = "HOH" \/ firstAtom.resName = "WAT"),
        ca |-> IF prot THEN FindAtom(as, own, "CA") ELSE 0,
        isLigand |-> FALSE]

\* the comparator of this.residues.sort(...) is negative
ResidueBefore(a, b) ==
    IF a.chainId # b.chainId
    THEN ChainRank(a.chainId) < ChainRank(b.chainId)
    ELSE a.resSeq < b.resSeq

\* Array.prototype.sort is stable: r goes before the first element that
\* compares greater
RECURSIVE InsertResidue(_, _)
InsertResidue(sorted, r) ==
    IF sorted = <<>> THEN <<r>>
    ELSE IF ResidueBefore(r, Head(sorted))
         THEN <<r>> \o sorted
         ELSE <<Head(sorted)>> \o InsertResidue(Tail(sorted), r)

RECURSIVE SortResidues(_, _)
SortResidues(rs, acc) ==
    IF rs = <<>> THEN acc
    ELSE SortResidues(Tail(rs), InsertResidue(acc, Head(rs)))

buildResidues(as) ==
    LET keys == FirstOfKey(as, 1)
        built == [k \in 1..Len(keys) |-> NewResidue(as, keys[k])]
    IN SortResidues(built, <<>>)

\* chainMap keys in insertion order; residues marked isLigand are skipped
RECURSIVE ChainIdsInOrder(_, _)
ChainIdsInOrder(rs, i) ==
    IF i > Len(rs) THEN <<>>
    ELSE IF rs[i].isLigand
            \/ \E j \in 1..(i - 1) : ~rs[j].isLigand /\ rs[j].chainId = rs[i].chainId
         THEN ChainIdsInOrder(rs, i + 1)
         ELSE <<rs[i].chainId>> \o ChainIdsInOrder(rs, i + 1)

\* chain.residues: indices into this.residues (the same residue objects)
RECURSIVE ChainResidues(_, _, _)
ChainResidues(rs, id, i) ==
    IF i > Len(rs) THEN <<>>
    ELSE IF ~rs[i].isLigand /\ rs[i].chainId = id
         THEN <<i>> \o ChainResidues(rs, id, i + 1)
         ELSE ChainResidues(rs, id, i + 1)

CountIn(rs, idxs, Flag(_)) == Cardinality({k \in 1..Len(idxs) : Flag(rs[idxs[k]])})

\* a plausible slip: a tie of the two counts gives other
ChainType_TieOther(rs, idxs) ==
    LET IsP(r) == r.isProtein
        IsN(r) == r.isNucleic
        proteinCount == CountIn(rs, idxs, IsP)
        nucleicCount == CountIn(rs, idxs, IsN)
    IN IF proteinCount > nucleicCount THEN "protein"
       ELSE IF nucleicCount > proteinCount THEN "nucleic"
       ELSE "other"

ChainType(rs, idxs) ==
    LET IsP(r) == r.isProtein
        IsN(r) == r.isNucleic
        proteinCount == CountIn(rs, idxs, IsP)
        nucleicCount == CountIn(rs, idxs, IsN)
    IN IF proteinCount > nucleicCount THEN "protein"
       ELSE IF nucleicCount > 0 THEN "nucleic"
       ELSE "other"

buildChains(rs) ==
    LET ids == ChainIdsInOrder(rs, 1)
    IN [k \in 1..Len(ids) |->
          LET members == ChainResidues(rs, ids[k], 1)
          IN [id |-> ids[k], residues |-> members, type |-> ChainType(rs, members)]]

\* one record of assignFromPDBRecords applied to every residue in its range
\* a plausible slip: the chain id of the record is not compared
ApplyRecord_AnyChain(rs, rec, label) ==
    [i \in 1..Len(rs) |->
        IF /\ rs[i].resSeq >= rec.initResSeq
           /\ rs[i].resSeq <= rec.endResSeq
        THEN [rs[i] EXCEPT !.secondaryStructure = label]
        ELSE rs[i]]

ApplyRecord(rs, rec, label) ==
    [i \in 1..Len(rs) |->
        IF /\ rs[i].chainId = rec.initChainId
           /\ rs[i].resSeq >= rec.initResSeq
           /\ rs[i].resSeq <= rec.endResSeq
        THEN [rs[i] EXCEPT !.secondaryStructure = label]
        ELSE rs[i]]

RECURSIVE ApplyRecords(_, _, _)
ApplyRecords(rs, recs, label) ==
    IF recs = <<>> THEN rs
    ELSE ApplyRecords(ApplyRecord(rs, Head(recs), label), Tail(recs), label)

\* helices first, then sheets
assignFromPDBRecords(rs, hs, ss) ==
    ApplyRecords(ApplyRecords(rs, hs, "helix"), ss, "sheet")

\* program constants of PDBParser.analyzeLocalGeometry, distances in tenths
\* of an Angstrom, angles in degrees
GeomWindow == 5
HelixAvgLow == 36
HelixAvgHigh == 40
SheetAvgLow == 35
TurnLow == 70
TurnHigh == 130
StraightMax == 30

RECURSIVE SumSeq(_)
SumSeq(s) == IF s = <<>> THEN 0 ELSE Head(s) + SumSeq(Tail(s))

\* PDBParser.analyzeLocalGeometry on the CA atoms of a window.  vectors[k]
\* joins CA k to CA k+1 and is divided by its length distances[k]: with a
\* zero length it is not-a-number and every comparison of its angles fails.
analyzeLocalGeometry(caAtoms) ==
    IF Len(caAtoms) < GeomWindow THEN [isHelix |-> FALSE, isSheet |-> FALSE]
    ELSE
        LET nVec == Len(caAtoms) - 1
            distances == [k \in 1..nVec |-> caAtoms[k].d]
            total == SumSeq(distances)
            \* the angle between vectors[k] and vectors[k+1] is the turn at CA k+1
            \* a distance is not-a-number when a coordinate of one of its ends is
            nanDist(k) == caAtoms[k].xyzNaN \/ caAtoms[k + 1].xyzNaN
            anyNaN == \E k \in 1..nVec : nanDist(k)
            defined(k) == /\ ~nanDist(k) /\ ~nanDist(k + 1)
                          /\ distances[k] # 0 /\ distances[k + 1] # 0
            angle(k) == caAtoms[k + 1].turn
            consistentTurns ==
                Cardinality({k \in 1..(nVec - 1) :
                    defined(k) /\ angle(k) > TurnLow /\ angle(k) < TurnHigh})
            straightSegments ==
                Cardinality({k \in 1..(nVec - 1) :
                    defined(k) /\ angle(k) < StraightMax})
            helixScore ==
                (IF ~anyNaN /\ total > HelixAvgLow * nVec /\ total < HelixAvgHigh * nVec
                 THEN 2 ELSE 0)
                + (IF consistentTurns >= nVec - 2 THEN 3 ELSE 0)
            sheetScore ==
                (IF ~anyNaN /\ total > SheetAvgLow * nVec THEN 2 ELSE 0)
                + (IF straightSegments >= nVec - 2 THEN 3 ELSE 0)
        IN [isHelix |-> helixScore >= 3, isSheet |-> sheetScore >= 3]

\* chain.residues.filter(r => r.isProtein && r.ca)
RECURSIVE ProteinResiduesOf(_, _)
ProteinResiduesOf(rs, idxs) ==
    IF idxs = <<>> THEN <<>>
    ELSE IF rs[Head(idxs)].isProtein /\ rs[Head(idxs)].ca # 0
         THEN <<Head(idxs)>> \o ProteinResiduesOf(rs, Tail(idxs))
         ELSE ProteinResiduesOf(rs, Tail(idxs))

\* the loop body of assignByGeometry for position p of proteinResidues
\* (the source's i = p - 1)
GeometryStep(as, rs, pr, p) ==
    LET r == pr[p]
        window == [k \in 1..GeomWindow |-> as[rs[pr[p - 3 + k]].ca]]
        geometry == analyzeLocalGeometry(window)
    IN IF rs[r].secondaryStructure # "coil" THEN rs
       ELSE IF geometry.isHelix THEN [rs EXCEPT ![r].secondaryStructure = "helix"]
       ELSE IF geometry.isSheet THEN [rs EXCEPT ![r].secondaryStructure = "sheet"]
       ELSE rs

\* for (let i = 2; i < proteinResidues.length - 2; i++)
RECURSIVE GeometryLoop(_, _, _, _)
GeometryLoop(as, rs, pr, p) ==
    IF p > Len(pr) - 2 THEN rs
    ELSE GeometryLoop(as, GeometryStep(as, rs, pr, p), pr, p + 1)

\* for (const chain of this.chains) { if (chain.type !== 'protein') continue; ... }
RECURSIVE assignByGeometry(_, _, _, _)
assignByGeometry(as, rs, cs, c) ==
    IF c > Len(cs) THEN rs
    ELSE IF cs[c].type # "protein" THEN assignByGeometry(as, rs, cs, c + 1)
    ELSE assignByGeometry(
            as,
            GeometryLoop(as, rs, ProteinResiduesOf(rs, cs[c].residues), 3),
            cs, c + 1)

\* header pass, then geometric pass; nothing else
assignSecondaryStructure(as, rs, cs, hs, ss) ==
    assignByGeometry(as, assignFromPDBRecords(rs, hs, ss), cs, 1)

\* the test of buildLigands
IsLigandResidue(as, r) ==
    /\ \E k \in 1..Len(r.atoms) : as[r.atoms[k]].isHetAtom
    /\ ~r.isWater
    /\ ~r.isProtein
    /\ ~r.isNucleic

\* const ligandKey = `${residue.chainId}_${residue.resName}_${residue.resSeq}`
ligandKey(r) == r.chainId \o "_" \o r.resName \o "_" \o ToString(r.resSeq)

MarkLigands(as, rs) ==
    [i \in 1..Len(rs) |-> [rs[i] EXCEPT !.isLigand = IsLigandResidue(as, rs[i])]]

\* ligandMap values in insertion order: the first residue of each key
RECURSIVE LigandsFrom(_, _, _)
LigandsFrom(as, rs, i) ==
    IF i > Len(rs) THEN <<>>
    ELSE IF /\ IsLigandResidue(as, rs[i])
            /\ ~\E j \in 1..(i - 1) :
                  IsLigandResidue(as, rs[j]) /\ ligandKey(rs[j]) = ligandKey(rs[i])
         THEN <<[resName |-> rs[i].resName, chainId |-> rs[i].chainId,
                 resSeq |-> rs[i].resSeq, atoms |-> rs[i].atoms]>>
              \o LigandsFrom(as, rs, i + 1)
         ELSE LigandsFrom(as, rs, i + 1)

\* the parser after construction (and after reset())
ParserNew ==
    /\ atoms = <<>>
    /\ residues = <<>>
    /\ chains = <<>>
    /\ ligands = <<>>
    /\ helices = <<>>
    /\ sheets = <<>>
    /\ pcParse = "new"

\* parse(pdbText): reset, read the lines, buildResidues, buildChains,
\* assignSecondaryStructure, buildLigands
Parse ==
    /\ pcParse = "new"
    /\ LET as == ParseAtoms(pdbText.atomLines)
           hs == pdbText.helixLines
           ss == pdbText.sheetLines
           built == buildResidues(as)
           cs == buildChains(built)
           labelled == assignSecondaryStructure(as, built, cs, hs, ss)
       IN /\ atoms' = as
          /\ helices' = hs
          /\ sheets' = ss
          /\ chains' = cs
          /\ residues' = MarkLigands(as, labelled)
          /\ ligands' = LigandsFrom(as, labelled, 1)
    /\ pcParse' = "parsed"
    /\ UNCHANGED <<pdbText, analyzed>>
    /\ UNCHANGED <<varsSmooth, varsGen, varsExtrude, varsFrames, varsRenderer, varsConsole, varsSpline, varsRibbon, varsArc>>

(***************************************************************************)
(* CartoonGenerator (pymol-cartoon-generator.js) with CartoonShapes        *)
(* (cartoon types and cross-section shapes)                                *)
(*                                                                         *)
(* A backbone point is the index of its residue in this.residues.  Sample  *)
(* points and frames are counted, their coordinates are left out: no test  *)
(* of generateCartoon reads them.                                          *)
(***************************************************************************)
CartoonTypeLOOP == 2
CartoonTypeHELIX == 3
CartoonTypeSHEET == 4

Sampling == 20
HelixCircleSides == 12
LoopCircleSides == 8
RectanglePoints == 16

\* a plausible slip: every residue gives a point, with or without CA
RECURSIVE extractBackboneCoordinates_All(_, _)
extractBackboneCoordinates_All(rs, idxs) ==
    IF idxs = <<>> THEN <<>>
    ELSE <<Head(idxs)>> \o extractBackboneCoordinates_All(rs, Tail(idxs))

\* for (const residue of chain.residues) { if (residue.ca) points.push(...) }
RECURSIVE extractBackboneCoordinates(_, _)
extractBackboneCoordinates(rs, idxs) ==
    IF idxs = <<>> THEN <<>>
    ELSE IF rs[Head(idxs)].ca # 0
         THEN <<Head(idxs)>> \o extractBackboneCoordinates(rs, Tail(idxs))
         ELSE extractBackboneCoordinates(rs, Tail(idxs))

\* the switch of detectSecondaryStructure on the labels the parser sets
CartoonTypeOf(ss) ==
    IF ss = "helix" THEN CartoonTypeHELIX
    ELSE IF ss = "sheet" THEN CartoonTypeSHEET
    ELSE CartoonTypeLOOP

\* the segments of detectSecondaryStructure, before grouping
SegmentsOf(rs, points) ==
    [k \in 1..(Len(points) - 1) |->
        [point1 |-> points[k],
         point2 |-> points[k + 1],
         cartoonType |-> CartoonTypeOf(rs[points[k]].secondaryStructure),
         residue |-> points[k],
         index |-> k - 1]]

\* the loop of groupSegmentsByType; current = <<>> stands for null
RECURSIVE GroupLoop(_, _, _)
GroupLoop(segments, groups, current) ==
    IF segments = <<>> THEN groups \o current
    ELSE
        LET segment == Head(segments) IN
        IF current = <<>> \/ current[1].cartoonType # segment.cartoonType
        THEN GroupLoop(Tail(segments), groups \o current,
                       <<[cartoonType |-> segment.cartoonType,
                          segments |-> <<segment>>,
                          points |-> <<segment.point1, segment.point2>>]>>)
        ELSE GroupLoop(Tail(segments), groups,
                       <<[current[1] EXCEPT
                            !.segments = Append(@, segment),
                            !.points = Append(@, segment.point2)]>>)

\* a plausible slip: a new group is started for every segment
RECURSIVE groupSegmentsByType_Each(_)
groupSegmentsByType_Each(segments) ==
    IF segments = <<>> THEN <<>>
    ELSE <<[cartoonType |-> Head(segments).cartoonType,
            segments |-> <<Head(segments)>>,
            points |-> <<Head(segments).point1, Head(segments).point2>>]>>
         \o groupSegmentsByType_Each(Tail(segments))

groupSegmentsByType(segments) == GroupLoop(segments, <<>>, <<>>)

detectSecondaryStructure(rs, points) == groupSegmentsByType(SegmentsOf(rs, points))

\* the number of points interpolateSmooth returns
interpolateSmooth(nPoints, sampling) ==
    IF nPoints < 2 THEN nPoints ELSE (nPoints - 1) * sampling

\* one curve per group of at least 2 points; frames are computed per group
RECURSIVE generateSmoothCurves(_, _)
generateSmoothCurves(groups, sampling) ==
    IF groups = <<>> THEN <<>>
    ELSE LET group == Head(groups) IN
         IF Len(group.points) < 2 THEN generateSmoothCurves(Tail(groups), sampling)
         ELSE <<[cartoonType |-> group.cartoonType,
                 points |-> interpolateSmooth(Len(group.points), sampling),
                 frames |-> interpolateSmooth(Len(group.points), sampling),
                 segments |-> group.segments]>>
              \o generateSmoothCurves(Tail(groups), sampling)

\* a plausible slip: n shape points, the circle left open
circle_Open(n) == [shape |-> "circle", nShapePoints |-> n]

\* CartoonShapes.circle(extrude, n, size): the loop "for (i = 0; i <= n; i++)"
\* writes n + 1 shape points, the last one on top of the first
circle(n) == [shape |-> "circle", nShapePoints |-> n + 1]

\* CartoonShapes.rectangle: four edges of four points
rectangle == [shape |-> "rectangle", nShapePoints |-> RectanglePoints]

\* createExtrusion: n sample points and the cross-section of the cartoon type
createExtrusion(curve) ==
    LET shape == IF curve.cartoonType = CartoonTypeHELIX THEN circle(HelixCircleSides)
                 ELSE IF curve.cartoonType = CartoonTypeSHEET THEN rectangle
                 ELSE circle(LoopCircleSides)
    IN [n |-> curve.points, shape |-> shape.shape, nShapePoints |-> shape.nShapePoints]

\* the guard of generateGeometry
GeometryEmpty(n, shapePoints) == n < 2 \/ shapePoints < 3

\* generateGeometry: vertex (i, j) is shape point j of ring i; three floats
\* of the vertices array stand for one vertex
generateGeometry(n, shapePoints) ==
    IF GeometryEmpty(n, shapePoints) THEN [vertices |-> <<>>, indices |-> <<>>]
    ELSE [vertices |->
             [v \in 1..(n * shapePoints) |->
                 <<(v - 1) \div shapePoints, (v - 1) % shapePoints>>],
          indices |->
             [k \in 1..((n - 1) * shapePoints * 6) |->
                 LET quad == (k - 1) \div 6
                     i == quad \div shapePoints
                     j == quad % shapePoints
                     nextJ == (j + 1) % shapePoints
                     i1 == i * shapePoints + j
                     i2 == i * shapePoints + nextJ
                     i3 == (i + 1) * shapePoints + j
                     i4 == (i + 1) * shapePoints + nextJ
                 IN <<i1, i2, i3, i2, i4, i3>>[((k - 1) % 6) + 1]]]

\* generateMesh: null (here <<>>) for an empty geometry, else a mesh named
\* after the cartoon type; no metadata is attached to the mesh
generateMesh(extrude, cartoonType) ==
    IF GeometryEmpty(extrude.n, extrude.nShapePoints) THEN <<>>
    ELSE <<[cartoonType |-> cartoonType,
            shape |-> extrude.shape,
            rings |-> extrude.n,
            nShapePoints |-> extrude.nShapePoints,
            metadata |-> {}]>>

\* the loop of generateCartoon over the curves: the meshes that were created
RECURSIVE MeshesOf(_)
MeshesOf(curves) ==
    IF curves = <<>> THEN <<>>
    ELSE generateMesh(createExtrusion(Head(curves)), Head(curves).cartoonType)
         \o MeshesOf(Tail(curves))

\* ... and the extrusions kept in this.extrudes (those whose mesh exists)
RECURSIVE ExtrudesOf(_)
ExtrudesOf(curves) ==
    IF curves = <<>> THEN <<>>
    ELSE (IF generateMesh(createExtrusion(Head(curves)), Head(curves).cartoonType) = <<>>
          THEN <<>> ELSE <<createExtrusion(Head(curves))>>)
         \o ExtrudesOf(Tail(curves))

\* parser.chains.find(c => c.id === chainId): index of the chain, 0 if none
FindChain(cs, chainId) ==
    IF \E c \in 1..Len(cs) : cs[c].id = chainId
    THEN CHOOSE c \in 1..Len(cs) :
            cs[c].id = chainId /\ \A b \in 1..(c - 1) : cs[b].id # chainId
    ELSE 0

\* the curves generateCartoon extrudes for a chain; <<>> on the early returns
CurvesOfChain(rs, cs, chainId) ==
    LET c == FindChain(cs, chainId) IN
    IF c = 0 \/ Len(cs[c].residues) < 2 THEN <<>>
    ELSE LET backbonePoints == extractBackboneCoordinates(rs, cs[c].residues) IN
         IF Len(backbonePoints) < 2 THEN <<>>
         ELSE generateSmoothCurves(detectSecondaryStructure(rs, backbonePoints), Sampling)

\* the generator after construction
GeneratorNew ==
    /\ genMeshes = <<>>
    /\ genExtrudes = <<>>
    /\ lastResult = <<>>
    /\ lastChainId = "none"
    /\ genCalls = 0

\* generateCartoon(parser, chainId) as ProteinRenderer calls it (no options)
GenerateCartoon(chainId) ==
    /\ pcParse = "parsed"
    /\ genCalls < MaxGenCalls
    /\ LET curves == CurvesOfChain(residues, chains, chainId)
           meshes == MeshesOf(curves)
       IN /\ genMeshes' = genMeshes \o meshes
          /\ genExtrudes' = genExtrudes \o ExtrudesOf(curves)
          /\ lastResult' = meshes
    /\ lastChainId' = chainId
    /\ genCalls' = genCalls + 1
    /\ UNCHANGED <<varsSmooth, varsParse, analyzed, varsExtrude, varsFrames, varsRenderer, varsConsole, varsSpline, varsRibbon, varsArc>>

(***************************************************************************)
(* SecondaryStructureAnalyzer.analyzeChain (part_002)                      *)
(*                                                                         *)
(* The scores are fractions.  A score is kept as [num, count]: num counts  *)
(* sixtieths and the score is num / (60 * count).  Every term of the       *)
(* source is a whole number of sixtieths for windows of at most            *)
(* GeometryWindow CA atoms and whole-numbered distances and angles.        *)
(***************************************************************************)
GeometryWindow == 5
HelixCaDistance == 38
HelixDistanceTolerance == 4
HelixTurnAngle == 100
HelixAngleTolerance == 30
TorsionTolerance == 30
SheetMinDistance == 33
SheetDistanceSpan == 5
SheetMaxTurnAngle == 30
VarianceLimit == 50
ScoreUnit == 60

Abs(x) == IF x < 0 THEN -x ELSE x
Max(a, b) == IF a > b THEN a ELSE b
Min(a, b) == IF a < b THEN a ELSE b

\* residues.filter(r => r.isProtein && r.ca).map(...): the CA atoms
RECURSIVE extractCAAtoms(_, _, _)
extractCAAtoms(as, rs, idxs) ==
    IF idxs = <<>> THEN <<>>
    ELSE IF rs[Head(idxs)].isProtein /\ rs[Head(idxs)].ca # 0
         THEN <<as[rs[Head(idxs)].ca]>> \o extractCAAtoms(as, rs, Tail(idxs))
         ELSE extractCAAtoms(as, rs, Tail(idxs))

calculateDistances(caAtoms) == [k \in 1..(Len(caAtoms) - 1) |-> caAtoms[k].d]
calculateAngles(caAtoms) == [k \in 1..(Len(caAtoms) - 2) |-> caAtoms[k + 1].turn]
calculateTorsions(caAtoms) == [k \in 1..(Len(caAtoms) - 3) |-> caAtoms[k + 1].torsion]

\* sum of 1 - |x - ideal| / tolerance over the values within tolerance
RECURSIVE ToleranceSum(_, _, _)
ToleranceSum(values, ideal, tolerance) ==
    IF values = <<>> THEN 0
    ELSE (IF Abs(Head(values) - ideal) <= tolerance
          THEN ((tolerance - Abs(Head(values) - ideal)) * ScoreUnit) \div tolerance
          ELSE 0)
         + ToleranceSum(Tail(values), ideal, tolerance)

scoreHelicalGeometry(distances, angles, torsions) ==
    LET nT == Len(torsions)
        regular == Cardinality({k \in 1..nT :
                      Abs(torsions[k] * nT - SumSeq(torsions)) < TorsionTolerance * nT})
    IN [num |-> ToleranceSum(distances, HelixCaDistance, HelixDistanceTolerance)
                + ToleranceSum(angles, HelixTurnAngle, HelixAngleTolerance)
                + (IF nT >= 2 THEN (regular * ScoreUnit) \div nT ELSE 0),
        count |-> Len(distances) + Len(angles) + (IF nT >= 2 THEN 1 ELSE 0)]

scoreSheetGeometry(distances, angles) ==
    LET nD == Len(distances)
        excess == SumSeq(distances) - SheetMinDistance * nD
        straightSegments ==
            Cardinality({k \in 1..Len(angles) :
                angles[k] < SheetMaxTurnAngle \/ angles[k] > 180 - SheetMaxTurnAngle})
    IN [num |-> (IF excess >= 0
                 THEN Min(ScoreUnit, (excess * ScoreUnit) \div (SheetDistanceSpan * nD))
                 ELSE 0)
                + (IF Len(angles) > 0
                   THEN (straightSegments * ScoreUnit) \div Len(angles) ELSE 0),
        count |-> 1 + (IF Len(angles) > 0 THEN 1 ELSE 0)]

\* confidence in hundredths
calculateConfidence(caAtoms, distances) ==
    LET nD == Len(distances)
        total == SumSeq(distances)
        RECURSIVE SquareSum(_)
        SquareSum(ds) ==
            IF ds = <<>> THEN 0
            ELSE (Head(ds) * nD - total) * (Head(ds) * nD - total) + SquareSum(Tail(ds))
        base == IF Len(caAtoms) < GeometryWindow
                THEN (100 * Len(caAtoms)) \div GeometryWindow ELSE 100
        spaced == IF SquareSum(distances) > VarianceLimit * nD * nD * nD
                  THEN (base * 8) \div 10 ELSE base
    IN Max(10, spaced)

\* SecondaryStructureAnalyzer.analyzeLocalGeometry
AnalyzerLocalGeometry(as, rs, window) ==
    LET caAtoms == extractCAAtoms(as, rs, window) IN
    IF Len(caAtoms) < 3
    THEN [helix |-> [num |-> 0, count |-> 1], sheet |-> [num |-> 0, count |-> 1],
          confidence |-> 0]
    ELSE [helix |-> scoreHelicalGeometry(calculateDistances(caAtoms),
                                         calculateAngles(caAtoms),
                                         calculateTorsions(caAtoms)),
          sheet |-> scoreSheetGeometry(calculateDistances(caAtoms),
                                       calculateAngles(caAtoms)),
          confidence |-> calculateConfidence(caAtoms, calculateDistances(caAtoms))]

\* one score per residue, from the window of halfWindow residues on each side
calculateGeometryScores(as, rs, idxs) ==
    LET halfWindow == GeometryWindow \div 2 IN
    [i \in 1..Len(idxs) |->
        AnalyzerLocalGeometry(as, rs,
            SubSeq(idxs, Max(1, i - halfWindow), Min(Len(idxs), i + halfWindow)))]

ScoreGreater(a, b) == a.num * b.count > b.num * a.count

\* score > 0.6
ScoreStructured(a) == a.num * 10 > 6 * ScoreUnit * a.count

\* a plausible slip: the helix score wins a tie
applyGeometryAssignments_TieHelix(scores) ==
    [i \in 1..Len(scores) |->
        IF scores[i].confidence > 50
        THEN IF ~ScoreGreater(scores[i].sheet, scores[i].helix)
                /\ ScoreStructured(scores[i].helix) THEN "helix"
             ELSE IF ScoreGreater(scores[i].sheet, scores[i].helix)
                     /\ ScoreStructured(scores[i].sheet) THEN "sheet"
             ELSE "coil"
        ELSE "coil"]

\* the labels of applyGeometryAssignments; the labels the residues hold on
\* entry are not read
applyGeometryAssignments(scores) ==
    [i \in 1..Len(scores) |->
        IF scores[i].confidence > 50
        THEN IF ScoreGreater(scores[i].helix, scores[i].sheet)
                /\ ScoreStructured(scores[i].helix) THEN "helix"
             ELSE IF ScoreGreater(scores[i].sheet, scores[i].helix)
                     /\ ScoreStructured(scores[i].sheet) THEN "sheet"
             ELSE "coil"
        ELSE "coil"]

\* residues[i].secondaryStructure = assignments[i].assignment, for every i
RECURSIVE applyAssignments(_, _, _, _)
applyAssignments(labels, rs, idxs, i) ==
    IF i > Len(labels) \/ i > Len(idxs) THEN rs
    ELSE applyAssignments(labels,
                          [rs EXCEPT ![idxs[i]].secondaryStructure = labels[i]],
                          idxs, i + 1)

\* every residue becomes coil
RECURSIVE assignDefaultStructure(_, _)
assignDefaultStructure(rs, idxs) ==
    IF idxs = <<>> THEN rs
    ELSE assignDefaultStructure([rs EXCEPT ![Head(idxs)].secondaryStructure = "coil"],
                                Tail(idxs))

\* analyzeChain(residues): the residues after the call
analyzeChain(as, rs, idxs) ==
    IF Len(idxs) < GeometryWindow THEN assignDefaultStructure(rs, idxs)
    ELSE applyAssignments(
            smoothAssignments(applyGeometryAssignments(calculateGeometryScores(as, rs, idxs))),
            rs, idxs, 1)

\* no chain has been analysed
AnalyzerNew == analyzed = {}

\* analyzer.analyzeChain(chain.residues) on a chain of the parsed structure,
\* the second step of the documented pipeline
AnalyzeChain(c) ==
    /\ pcParse = "parsed"
    /\ c \in 1..Len(chains)
    /\ residues' = analyzeChain(atoms, residues, chains[c].residues)
    /\ analyzed' = analyzed \cup {chains[c].id}
    /\ UNCHANGED <<pdbText, atoms, chains, ligands, helices, sheets, pcParse>>
    /\ UNCHANGED <<varsSmooth, varsGen, varsExtrude, varsFrames, varsRenderer, varsConsole, varsSpline, varsRibbon, varsArc>>

(***************************************************************************)
(* CartoonGenerator.minimizeFrameTwisting on frames with whole-numbered    *)
(* vectors                                                                 *)
(***************************************************************************)
Dot(a, b) == a[1] * b[1] + a[2] * b[2] + a[3] * b[3]
Scale(v, s) == <<v[1] * s, v[2] * s, v[3] * s>>

\* a plausible slip: only the binormal test is made
TwistStep_BinormalOnly(prevFrame, currFrame) ==
    IF Dot(prevFrame.binormal, currFrame.binormal) < 0
    THEN [currFrame EXCEPT !.binormal = Scale(@, -1)]
    ELSE currFrame

\* the loop body: frames[i] against the frame before it, as the loop left it
TwistStep(prevFrame, currFrame) ==
    LET flipped == IF Dot(prevFrame.normal, currFrame.normal) < 0
                   THEN [currFrame EXCEPT !.normal = Scale(@, -1),
                                          !.binormal = Scale(@, -1)]
                   ELSE currFrame
    IN IF Dot(prevFrame.binormal, flipped.binormal) < 0
       THEN [flipped EXCEPT !.binormal = Scale(@, -1)]
       ELSE flipped

\* for (let i = 1; i < frames.length; i++), on the array in place
RECURSIVE TwistLoop(_, _)
TwistLoop(fs, i) ==
    IF i > Len(fs) THEN fs
    ELSE TwistLoop([fs EXCEPT ![i] = TwistStep(fs[i - 1], fs[i])], i + 1)

minimizeFrameTwisting(fs) == IF Len(fs) < 2 THEN fs ELSE TwistLoop(fs, 2)

(***************************************************************************)
(* CartoonMath.computeFrenetFrame and CartoonGenerator.computeFrenetFrames *)
(*                                                                         *)
(* A coordinate is a whole number or not-a-number (what parseFloat gives   *)
(* for a field that is no number).  A direction is kept without dividing   *)
(* by its length: normalize(v) is v itself when its length is a number     *)
(* above 0 and stands for the unit vector along v, and (0,0,1) otherwise.  *)
(* Dot products of directions are then 0 exactly when those of the unit    *)
(* vectors are.                                                            *)
(***************************************************************************)
Num(v) == [nan |-> FALSE, val |-> v]
NaN == [nan |-> TRUE, val |-> 0]

CAdd(a, b) == IF a.nan \/ b.nan THEN NaN ELSE Num(a.val + b.val)
CSub(a, b) == IF a.nan \/ b.nan THEN NaN ELSE Num(a.val - b.val)
CMul(a, b) == IF a.nan \/ b.nan THEN NaN ELSE Num(a.val * b.val)

\* CartoonMath.subtract, dot, cross, scale on such coordinates
VSubtract(a, b) == <<CSub(a[1], b[1]), CSub(a[2], b[2]), CSub(a[3], b[3])>>
VDot(a, b) == CAdd(CAdd(CMul(a[1], b[1]), CMul(a[2], b[2])), CMul(a[3], b[3]))
VCross(a, b) ==
    <<CSub(CMul(a[2], b[3]), CMul(a[3], b[2])),
      CSub(CMul(a[3], b[1]), CMul(a[1], b[3])),
      CSub(CMul(a[1], b[2]), CMul(a[2], b[1]))>>
VScale(v, s) == <<CMul(v[1], s), CMul(v[2], s), CMul(v[3], s)>>

UnitX == <<Num(1), Num(0), Num(0)>>
UnitY == <<Num(0), Num(1), Num(0)>>
UnitZ == <<Num(0), Num(0), Num(1)>>

\* CartoonMath.normalize: "if (length > 0)" fails for length 0 and for NaN
normalize(v) ==
    IF ~VDot(v, v).nan /\ VDot(v, v).val > 0 THEN v ELSE UnitZ

\* Math.abs(tangent.y) < 0.9 for the unit vector along tangent
\* (tangent comes from normalize and holds numbers only)
FlatEnough(tangent) ==
    100 * tangent[2].val * tangent[2].val < 81 * VDot(tangent, tangent).val

\* the "arbitrary perpendicular vector" of computeFrenetFrame
ArbitraryPerpendicular(tangent) ==
    IF FlatEnough(tangent) THEN VCross(tangent, UnitY) ELSE VCross(tangent, UnitX)

\* computeFrenetFrame(points, index), index counted from 1
computeFrenetFrame(points, index) ==
    LET n == Len(points)
        tangent == normalize(
            IF index = 1 THEN VSubtract(points[2], points[1])
            ELSE IF index = n THEN VSubtract(points[n], points[n - 1])
            ELSE VSubtract(points[index + 1], points[index - 1]))
        curvature == VSubtract(VSubtract(points[index + 1], points[index]),
                               VSubtract(points[index], points[index - 1]))
        \* curvature - tangent * dot(curvature, tangent), times |tangent|^2
        projected == VSubtract(VScale(curvature, VDot(tangent, tangent)),
                               VScale(tangent, VDot(curvature, tangent)))
        \* length(normal) < 1e-6: false for a not-a-number length
        tooShort == ~VDot(projected, projected).nan /\ VDot(projected, projected).val = 0
        normal == normalize(
            IF index = 1 \/ index = n THEN ArbitraryPerpendicular(tangent)
            ELSE IF tooShort THEN ArbitraryPerpendicular(tangent)
            ELSE projected)
        binormal == normalize(VCross(tangent, normal))
        Ints(v) == <<v[1].val, v[2].val, v[3].val>>
    IN [tangent |-> Ints(tangent), normal |-> Ints(normal), binormal |-> Ints(binormal)]

\* the loop of computeFrenetFrames, before minimizeFrameTwisting
FrenetFrames(points) == [i \in 1..Len(points) |-> computeFrenetFrame(points, i)]

(***************************************************************************)
(* ProteinRenderer: the map of loaded proteins                             *)
(* this.proteins is a Map keyed by filename; it is held here as the        *)
(* sequence of its values in insertion order.                              *)
(***************************************************************************)
ProteinSpacing == 100
GridColumns == 3

Origin == [x |-> 0, y |-> 0, z |-> 0]

\* the two fields of the renderer the protein operations change
Renderer == [proteins |-> proteins, nextProteinPosition |-> nextProteinPosition]

\* this.proteins.has(filename)
HasProtein(ps, filename) == \E i \in 1..Len(ps) : ps[i].filename = filename

removeProtein(r, filename) ==
    IF ~HasProtein(r.proteins, filename)
    THEN [renderer |-> r, result |-> FALSE]
    ELSE LET Other(p) == p.filename # filename
         IN [renderer |-> [r EXCEPT !.proteins = SelectSeq(r.proteins, Other)],
             result |-> TRUE]

clearAllProteins(r) == [proteins |-> <<>>, nextProteinPosition |-> Origin]

calculateProteinPosition(r) ==
    LET position == r.nextProteinPosition
        x == position.x + ProteinSpacing
    IN [position |-> position,
        renderer |-> [r EXCEPT !.nextProteinPosition =
                         IF x > ProteinSpacing * GridColumns
                         THEN [position EXCEPT !.x = 0, !.z = position.z + ProteinSpacing]
                         ELSE [position EXCEPT !.x = x]]]

\* a plausible slip: every load behaves as the legacy loadProtein, which
\* clears the scene first
addProtein_ClearFirst(r, filename, clearFirst, parser) ==
    LET cleared == clearAllProteins(r)
        placed == calculateProteinPosition(cleared)
    IN [placed.renderer EXCEPT !.proteins =
           <<[filename |-> filename, parser |-> parser, position |-> placed.position]>>]

\* addProtein up to its first await: the map is changed before the meshes
\* of the new protein are generated, and nothing after it touches the map.
\* parser stands for the PDBParser object created by this call.
addProtein(r, filename, clearFirst, parser) ==
    LET cleared == IF clearFirst THEN clearAllProteins(r) ELSE r
        removedOld == IF HasProtein(cleared.proteins, filename)
                      THEN removeProtein(cleared, filename).renderer
                      ELSE cleared
        placed == calculateProteinPosition(removedOld)
    IN [placed.renderer EXCEPT !.proteins =
           Append(removedOld.proteins,
                  [filename |-> filename, parser |-> parser,
                   position |-> placed.position])]

\* the statements of addProtein in which an exception sends it to its
\* catch block, which returns false: parser.parse, the awaited
\* generateProteinVisualizations, and updateProteinInfo
ThrowingSteps == {"parse", "visualizations", "info"}

\* addProtein when the step thrownAt throws: the statements before it have
\* run, the catch block changes nothing of the renderer
addProteinFailing(r, filename, clearFirst, parser, thrownAt) ==
    LET cleared == IF clearFirst THEN clearAllProteins(r) ELSE r
        removedOld == IF HasProtein(cleared.proteins, filename)
                      THEN removeProtein(cleared, filename).renderer
                      ELSE cleared
    IN IF thrownAt = "parse" THEN removedOld
       ELSE addProtein(r, filename, clearFirst, parser)

\* getLoadedProteins(), as a set
LoadedProteins == {proteins[i].filename : i \in 1..Len(proteins)}

(***************************************************************************)
(* ProteinRenderer and ProteinViewer: representation flags                 *)
(***************************************************************************)
RepresentationTypes == {"cartoon", "backbone", "sticks", "spheres"}

Flags == [showCartoon |-> showCartoon, showBackbone |-> showBackbone,
          showSticks |-> showSticks, showSpheres |-> showSpheres]

\* the flags of a renderer just constructed
NewFlags == [showCartoon |-> FALSE, showBackbone |-> TRUE,
             showSticks |-> FALSE, showSpheres |-> FALSE]

\* ProteinRenderer.toggleRepresentation: its switch has no case for cartoon
ProteinRenderer_toggleRepresentation(flags, type, visible) ==
    CASE type = "backbone" -> [flags EXCEPT !.showBackbone = visible]
      [] type = "sticks"   -> [flags EXCEPT !.showSticks = visible]
      [] type = "spheres"  -> [flags EXCEPT !.showSpheres = visible]
      [] OTHER             -> flags

\* ProteinViewer.toggleRepresentation; forceState is "null", "true" or "false"
ProteinViewer_toggleRepresentation(flags, type, forceState) ==
    IF type \notin RepresentationTypes THEN flags
    ELSE LET currentState == CASE type = "cartoon"  -> flags.showCartoon
                               [] type = "backbone" -> flags.showBackbone
                               [] type = "sticks"   -> flags.showSticks
                               [] type = "spheres"  -> flags.showSpheres
             newState == IF forceState # "null" THEN forceState = "true"
                         ELSE ~currentState
         IN ProteinRenderer_toggleRepresentation(flags, type, newState)

\* the renderer as constructed
RendererNew ==
    /\ proteins = <<>>
    /\ nextProteinPosition = Origin
    /\ showCartoon = NewFlags.showCartoon
    /\ showBackbone = NewFlags.showBackbone
    /\ showSticks = NewFlags.showSticks
    /\ showSpheres = NewFlags.showSpheres
    /\ removed = "none"
    /\ added = "none"
    /\ calls = <<>>

(***************************************************************************)
(* ProteinViewer: command history and processCommand                       *)
(* A command is held as the list of its words, command.split(' ').         *)
(***************************************************************************)
HistoryCap == 100

\* array.slice(-n)
LastEntries(history, n) == SubSeq(history, Max(1, Len(history) - n + 1), Len(history))

\* a plausible slip: the whole history is stored
saveCommandHistory_Uncapped(history) == history

\* the value saveCommandHistory writes to localStorage
saveCommandHistory(history) == LastEntries(history, HistoryCap)

\* the value loadCommandHistory returns for what saveCommandHistory stored
loadCommandHistory(stored) == stored

addCommandToHistory(history, stored, command) ==
    IF Len(history) = 0 \/ history[Len(history)] # command
    THEN [commandHistory |-> Append(history, command),
          storedHistory |-> saveCommandHistory(Append(history, command))]
    ELSE [commandHistory |-> history, storedHistory |-> stored]

\* the flags after processCommand's switch
CommandFlags(flags, cmd, args) ==
    CASE cmd \in RepresentationTypes ->
            ProteinViewer_toggleRepresentation(flags, cmd, "null")
      [] cmd = "show" ->
            IF Len(args) > 0
            THEN ProteinViewer_toggleRepresentation(flags, args[1], "true")
            ELSE flags
      [] cmd = "hide" ->
            IF Len(args) > 0
            THEN ProteinViewer_toggleRepresentation(flags, args[1], "false")
            ELSE ProteinViewer_toggleRepresentation(
                   ProteinViewer_toggleRepresentation(
                     ProteinViewer_toggleRepresentation(
                       ProteinViewer_toggleRepresentation(flags, "cartoon", "false"),
                       "backbone", "false"),
                     "sticks", "false"),
                   "spheres", "false")
      [] OTHER -> flags

\* the history after processCommand's switch
CommandHistoryAfter(h, cmd, args) ==
    IF cmd = "history" /\ Len(args) > 0 /\ args[1] = "clear"
    THEN [commandHistory |-> <<>>, storedHistory |-> saveCommandHistory(<<>>)]
    ELSE h

\* the viewer as constructed with an empty localStorage
ViewerNew ==
    /\ storedHistory = <<>>
    /\ commandHistory = <<>>
    /\ lastCommand = <<>>
    /\ commandsRun = 0

\* CartoonInterpolation.linearInterpolate(p1, p2, num / den), times den
linearInterpolate(p1, p2, num, den) ==
    <<CAdd(CMul(Num(den), p1[1]), CMul(Num(num), CSub(p2[1], p1[1]))),
      CAdd(CMul(Num(den), p1[2]), CMul(Num(num), CSub(p2[2], p1[2]))),
      CAdd(CMul(Num(den), p1[3]), CMul(Num(num), CSub(p2[3], p1[3])))>>

\* interpolateSmooth for a group of two points, every sample times
\* totalSegments - 1: t = i / (totalSegments - 1), segmentIndex = floor(t)
\* is 1 for the last sample only, and localT = t - segmentIndex is then 0
interpolateSmoothTwo(points, sampling) ==
    LET totalSegments == (Len(points) - 1) * sampling IN
    [k \in 1..totalSegments |->
        LET i == k - 1
            segmentIndex == i \div (totalSegments - 1)
            localNum == i - segmentIndex * (totalSegments - 1)
        IN linearInterpolate(points[1], points[2], localNum, totalSegments - 1)]

\* the frames generateSmoothCurves attaches to the curve of each group
\* (groups of two points)
CurveFramesOf(groups, sampling) ==
    [g \in 1..Len(groups) |->
        minimizeFrameTwisting(FrenetFrames(interpolateSmoothTwo(groups[g], sampling)))]

(***************************************************************************)
(* BSplineCurve: getPointAt                                                *)
(* The parameter t is held as a whole number of unit-ths.  A result names  *)
(* the control points read (indices from 0, as in the source) and the      *)
(* local parameter given to evaluateBSpline, in unit-ths.                  *)
(***************************************************************************)
SplineDegree == 3

\* Math.max(0, Math.min(1, t))
ClampT(t, unit) == Max(0, Min(unit, t))

\* a plausible slip: the span is used as the start index without clamping
getPointAt_Unclamped(numPoints, t, unit) ==
    IF numPoints < 4
    THEN [read |-> IF numPoints = 0 THEN <<>> ELSE <<0>>, localT |-> 0]
    ELSE LET numSpans == numPoints - SplineDegree
             span == (ClampT(t, unit) * numSpans) \div unit
         IN [read |-> <<span, span + 1, span + 2, span + 3>>,
             localT |-> ClampT(t, unit) * numSpans - span * unit]

\* getPointAt(t) on a curve of numPoints control points, t in unit-ths
getPointAt(numPoints, t, unit) ==
    IF numPoints < 4
    THEN [read |-> IF numPoints = 0 THEN <<>> ELSE <<0>>, localT |-> 0]
    ELSE LET numSpans == numPoints - SplineDegree
             span == (ClampT(t, unit) * numSpans) \div unit
             startIndex == Max(0, Min(span, numPoints - 4))
         IN [read |-> <<startIndex, startIndex + 1, startIndex + 2, startIndex + 3>>,
             localT |-> ClampT(t, unit) * numSpans - span * unit]

(***************************************************************************)
(* BSplineCurve: control points and the tangent cache                      *)
(* this.controlPoints is a reference to an array, which the caller or      *)
(* another curve may hold too: arrays live in a heap and a curve holds the *)
(* id of its array.  t is held in CacheUnit-ths.  A tangent is held as the *)
(* two curve points it is the normalized difference of.                    *)
(***************************************************************************)
CacheUnit == 20000
TangentDelta == 20

\* Math.round(t * 10000)
cacheKey(t) == (t + 1) \div 2

\* the point getPointAt(t) evaluates on the control points given
EvaluatedPoint(points, t) ==
    LET r == getPointAt(Len(points), t, CacheUnit)
    IN [points |-> [k \in 1..Len(r.read) |-> points[r.read[k] + 1]],
        localT |-> r.localT]

\* what getTangentAt computes when the cache does not answer
ComputedTangent(points, t) ==
    [p1 |-> EvaluatedPoint(points, Max(0, t - TangentDelta)),
     p2 |-> EvaluatedPoint(points, Min(CacheUnit, t + TangentDelta))]

\* this._tangentCache: "undefined" until invalidateCache has run, then the
\* set of its entries
NoCache == [defined |-> FALSE, entries |-> {}]
invalidateCache == [defined |-> TRUE, entries |-> {}]

CacheHas(cache, key) == cache.defined /\ \E e \in cache.entries : e.key = key
CacheGet(cache, key) == (CHOOSE e \in cache.entries : e.key = key).tangent

\* setControlPoints(points): the curve holds the array given, not a copy
setControlPoints(curve, array) ==
    [controlPoints |-> array, tangentCache |-> invalidateCache]

\* getTangentAt(t): the tangent returned and the curve afterwards
getTangentAt(curve, points, t) ==
    IF CacheHas(curve.tangentCache, cacheKey(t))
    THEN [tangent |-> CacheGet(curve.tangentCache, cacheKey(t)), curve |-> curve]
    ELSE LET tangent == ComputedTangent(points, t)
         IN [tangent |-> tangent,
             curve |-> IF curve.tangentCache.defined
                       THEN [curve EXCEPT !.tangentCache.entries =
                                @ \cup {[key |-> cacheKey(t), tangent |-> tangent]}]
                       ELSE curve]

\* no curve instance is held
CurvesIdle ==
    /\ arrays = <<>>
    /\ splineCurves = <<>>
    /\ lastTangent = [curve |-> 0, t |-> 0, tangent |-> <<>>]
    /\ splineLog = <<>>

\* no curve is held
SplineIdle ==
    /\ controlPoints = <<>>
    /\ tQuery = 0
    /\ pointAt = [read |-> <<>>, localT |-> 0]
    /\ pcSpline = "idle"
    /\ CurvesIdle

\* no ribbon mesh is being made
RibbonIdle ==
    /\ ribbonSegments = <<>>
    /\ ribbonMeshes = <<>>
    /\ pcRibbon = "idle"

\* no arc length is asked for
ArcIdle ==
    /\ arcChords = <<>>
    /\ arcTarget = 0
    /\ arcParameter = [nan |-> FALSE, num |-> 0, den |-> 1]
    /\ arcSamples = <<>>
    /\ pcArc = "idle"

\* no frames are held
FramesIdle ==
    /\ curvePoints = <<>>
    /\ groupPoints = <<>>
    /\ curveFrames = <<>>
    /\ framesIn = <<>>
    /\ frames = <<>>
    /\ pcFrames = "idle"

\* no extrusion is held
ExtrudeIdle ==
    /\ exSides = 0
    /\ exSamples = 0
    /\ exGeometry = [vertices |-> <<>>, indices |-> <<>>]
    /\ pcExtrude = "idle"

(***************************************************************************)
(* Specification SpecSmooth: label sequences fed through the smoothing pass *)
(***************************************************************************)
LabelSeqs(n) == UNION {[1..k -> SSLabels] : k \in 0..n}

InitSmooth ==
    /\ RendererNew
    /\ ViewerNew
    /\ SplineIdle
    /\ RibbonIdle
    /\ ArcIdle
    /\ assignments \in LabelSeqs(MaxLen)
    /\ geometryScores = <<>>
    /\ smoothed = <<>>
    /\ pcSmooth = "input"
    /\ ParserNew
    /\ AnalyzerNew
    /\ pdbText = NoText
    /\ GeneratorNew
    /\ ExtrudeIdle
    /\ FramesIdle

SmoothAssignments ==
    /\ pcSmooth = "input"
    /\ smoothed' = smoothAssignments(assignments)
    /\ pcSmooth' = "done"
    /\ UNCHANGED <<assignments, geometryScores>>
    /\ UNCHANGED <<varsParse, analyzed, varsGen, varsExtrude, varsFrames, varsRenderer, varsConsole, varsSpline, varsRibbon, varsArc>>

NextSmooth == SmoothAssignments

SpecSmooth == InitSmooth /\ [][NextSmooth]_vars

(***************************************************************************)
(* Specification SpecScores: geometry scores given to                      *)
(* applyGeometryAssignments, whose labels then go through the smoothing    *)
(* pass, as in analyzeChain.                                               *)
(***************************************************************************)
\* scores of 0.6, 0.7 (as 84 sixtieths over two terms) and 0.8
ScoreValues == {[num |-> 36, count |-> 1], [num |-> 84, count |-> 2],
                [num |-> 48, count |-> 1]}

\* confidences of 0.5 and 0.51
ConfidenceValues == {50, 51}

ScoreSet == [helix : ScoreValues, sheet : ScoreValues, confidence : ConfidenceValues]

InitScores ==
    /\ RendererNew
    /\ ViewerNew
    /\ SplineIdle
    /\ RibbonIdle
    /\ ArcIdle
    /\ \E n \in 1..MaxScores : geometryScores \in [1..n -> ScoreSet]
    /\ assignments = <<>>
    /\ smoothed = <<>>
    /\ pcSmooth = "scores"
    /\ ParserNew
    /\ AnalyzerNew
    /\ pdbText = NoText
    /\ GeneratorNew
    /\ ExtrudeIdle
    /\ FramesIdle

ApplyGeometryAssignments ==
    /\ pcSmooth = "scores"
    /\ assignments' = applyGeometryAssignments(geometryScores)
    /\ pcSmooth' = "input"
    /\ UNCHANGED <<geometryScores, smoothed>>
    /\ UNCHANGED <<varsParse, analyzed, varsGen, varsExtrude, varsFrames, varsRenderer, varsConsole, varsSpline, varsRibbon, varsArc>>

NextScores ==
    \/ ApplyGeometryAssignments
    \/ SmoothAssignments

SpecScores == InitScores /\ [][NextScores]_vars

\* the smoothing variables when another subsystem is under study
SmoothIdle ==
    /\ assignments = <<>>
    /\ geometryScores = <<>>
    /\ smoothed = <<>>
    /\ pcSmooth = "idle"

(***************************************************************************)
(* Specification SpecParse: parse() on every text of up to MaxAtomLines    *)
(* ATOM/HETATM lines over two chains, two sequence numbers, two insertion  *)
(* codes and four residue names                                            *)
(***************************************************************************)
\* record name and residue name of a line: protein, water, ligand and
\* nucleic residues, as ATOM or as HETATM
LineKinds ==
    {<<"ATOM", "ALA">>, <<"HETATM", "ALA">>, <<"HETATM", "HOH">>,
     <<"HETATM", "LIG">>, <<"ATOM", "LIG">>, <<"ATOM", "DA">>}

AtomLineSet ==
    {[rec |-> k[1], serial |-> "num", xyz |-> "num",
      name |-> "CA", resName |-> k[2], chainId |-> c,
      resSeq |-> n, iCode |-> ic, d |-> 38, turn |-> 50, torsion |-> 60] :
        k \in LineKinds, c \in {"A", "B"}, n \in {1, 2}, ic \in {"", "A"}}

InitParse ==
    /\ RendererNew
    /\ ViewerNew
    /\ SplineIdle
    /\ RibbonIdle
    /\ ArcIdle
    /\ pdbText \in [atomLines : UNION {[1..n -> AtomLineSet] : n \in 0..MaxAtomLines},
                    helixLines : {<<>>},
                    sheetLines : {<<>>}]
    /\ ParserNew
    /\ AnalyzerNew
    /\ SmoothIdle
    /\ GeneratorNew
    /\ ExtrudeIdle
    /\ FramesIdle

NextParse == Parse

SpecParse == InitParse /\ [][NextParse]_vars

(***************************************************************************)
(* Specification SpecLabels: parse() of one protein chain "A" with HELIX   *)
(* and SHEET records, then analyzeChain on the parsed chain.               *)
(*                                                                         *)
(* The chain has n residues numbered 1..n with one atom each: the CA atom, *)
(* or the N atom for the one residue "missing" whose CA is absent.  The    *)
(* CA trace is regular: every CA is 3.8 A from the next and the trace      *)
(* turns by the same angle at every CA (0: extended, 100: helical, 50:     *)
(* neither).                                                               *)
(***************************************************************************)
TurnChoices == {0, 50, 100}

BackboneLines(n, missing, turn) ==
    [i \in 1..n |->
        [rec |-> "ATOM", serial |-> "num", xyz |-> "num",
         name |-> IF i = missing THEN "N" ELSE "CA",
         resName |-> "ALA", chainId |-> "A", resSeq |-> i, iCode |-> "",
         d |-> 38, turn |-> turn, torsion |-> 60]]

\* no record, or one record over residues i..j of chain "A"
RangeRecords(n) ==
    {<<>>} \cup {<<[initChainId |-> "A", initResSeq |-> r[1], endResSeq |-> r[2]]>> :
                    r \in {p \in (1..n) \X (1..n) : p[1] <= p[2]}}

BackboneTexts(turns) ==
    UNION {[atomLines : {BackboneLines(n, missing, turn)},
            helixLines : RangeRecords(n),
            sheetLines : RangeRecords(n)] :
              n \in 0..MaxRes, missing \in 0..MaxRes, turn \in turns}

InitLabels ==
    /\ RendererNew
    /\ ViewerNew
    /\ SplineIdle
    /\ RibbonIdle
    /\ ArcIdle
    /\ pdbText \in BackboneTexts(TurnChoices)
    /\ ParserNew
    /\ AnalyzerNew
    /\ SmoothIdle
    /\ GeneratorNew
    /\ ExtrudeIdle
    /\ FramesIdle

NextLabels ==
    \/ Parse
    \/ \E c \in 1..Len(chains) : AnalyzeChain(c)

SpecLabels == InitLabels /\ [][NextLabels]_vars

(***************************************************************************)
(* Specification SpecCartoon: parse() of one chain as above (irregular     *)
(* trace), then generateCartoon for the chain and for an unknown chain id. *)
(***************************************************************************)
CallChainIds == {"A", "Z"}

InitCartoon ==
    /\ RendererNew
    /\ ViewerNew
    /\ SplineIdle
    /\ RibbonIdle
    /\ ArcIdle
    /\ pdbText \in BackboneTexts({50})
    /\ ParserNew
    /\ AnalyzerNew
    /\ SmoothIdle
    /\ GeneratorNew
    /\ ExtrudeIdle
    /\ FramesIdle

NextCartoon ==
    \/ Parse
    \/ \E chainId \in CallChainIds : GenerateCartoon(chainId)

SpecCartoon == InitCartoon /\ [][NextCartoon]_vars

(***************************************************************************)
(* Specification SpecExtrude: a circle of exSides sides extruded over      *)
(* exSamples curve samples.                                                *)
(***************************************************************************)
InitExtrude ==
    /\ RendererNew
    /\ ViewerNew
    /\ SplineIdle
    /\ RibbonIdle
    /\ ArcIdle
    /\ exSides \in 0..MaxSides
    /\ exSamples \in 0..MaxSamples
    /\ exGeometry = [vertices |-> <<>>, indices |-> <<>>]
    /\ pcExtrude = "input"
    /\ pdbText = NoText
    /\ ParserNew
    /\ AnalyzerNew
    /\ SmoothIdle
    /\ GeneratorNew
    /\ FramesIdle

\* CartoonShapes.circle(extrude, n, size) on an extrusion of exSamples
\* points, then generateGeometry(extrude)
ExtrudeCircle ==
    /\ pcExtrude = "input"
    /\ exGeometry' = generateGeometry(exSamples, circle(exSides).nShapePoints)
    /\ pcExtrude' = "done"
    /\ UNCHANGED <<exSides, exSamples>>
    /\ UNCHANGED <<varsSmooth, varsParse, analyzed, varsGen, varsFrames, varsRenderer, varsConsole, varsSpline, varsRibbon, varsArc>>

NextExtrude == ExtrudeCircle

SpecExtrude == InitExtrude /\ [][NextExtrude]_vars

(***************************************************************************)
(* Specification SpecFrames: minimizeFrameTwisting on up to MaxFrames      *)
(* frames whose normal and binormal lie along the x and y axes.            *)
(***************************************************************************)
AxisVectors == {<<1, 0, 0>>, <<-1, 0, 0>>, <<0, 1, 0>>, <<0, -1, 0>>}

FrameSet == [tangent : {<<0, 0, 1>>}, normal : AxisVectors, binormal : AxisVectors]

InitFrames ==
    /\ RendererNew
    /\ ViewerNew
    /\ SplineIdle
    /\ RibbonIdle
    /\ ArcIdle
    /\ curvePoints = <<>>
    /\ groupPoints = <<>>
    /\ curveFrames = <<>>
    /\ framesIn \in UNION {[1..n -> FrameSet] : n \in 0..MaxFrames}
    /\ frames = framesIn
    /\ pcFrames = "input"
    /\ pdbText = NoText
    /\ ParserNew
    /\ AnalyzerNew
    /\ SmoothIdle
    /\ GeneratorNew
    /\ ExtrudeIdle

MinimizeFrameTwisting ==
    /\ pcFrames = "input"
    /\ frames' = minimizeFrameTwisting(frames)
    /\ pcFrames' = "done"
    /\ UNCHANGED <<curvePoints, framesIn, groupPoints, curveFrames>>
    /\ UNCHANGED <<varsSmooth, varsParse, analyzed, varsGen, varsExtrude, varsRenderer, varsConsole, varsSpline, varsRibbon, varsArc>>

NextFrames == MinimizeFrameTwisting

SpecFrames == InitFrames /\ [][NextFrames]_vars

(***************************************************************************)
(* Specification SpecHanded: minimizeFrameTwisting on up to MaxFrames      *)
(* orthonormal right-handed frames along the axes, the tangent along z,    *)
(* -z or x.                                                                *)
(***************************************************************************)
Cross(a, b) ==
    <<a[2] * b[3] - a[3] * b[2], a[3] * b[1] - a[1] * b[3], a[1] * b[2] - a[2] * b[1]>>

AxisDirections == AxisVectors \cup {<<0, 0, 1>>, <<0, 0, -1>>}

\* orthonormal, and binormal = tangent x normal
RightHanded(frame) ==
    /\ Dot(frame.tangent, frame.tangent) = 1
    /\ Dot(frame.normal, frame.normal) = 1
    /\ Dot(frame.tangent, frame.normal) = 0
    /\ frame.binormal = Cross(frame.tangent, frame.normal)

HandedFrameSet ==
    {frame \in [tangent : {<<0, 0, 1>>, <<0, 0, -1>>, <<1, 0, 0>>},
                normal : AxisDirections, binormal : AxisDirections] :
        RightHanded(frame)}

InitHanded ==
    /\ RendererNew
    /\ ViewerNew
    /\ SplineIdle
    /\ RibbonIdle
    /\ ArcIdle
    /\ curvePoints = <<>>
    /\ groupPoints = <<>>
    /\ curveFrames = <<>>
    /\ framesIn \in UNION {[1..n -> HandedFrameSet] : n \in 0..MaxFrames}
    /\ frames = framesIn
    /\ pcFrames = "input"
    /\ pdbText = NoText
    /\ ParserNew
    /\ AnalyzerNew
    /\ SmoothIdle
    /\ GeneratorNew
    /\ ExtrudeIdle

NextHanded == MinimizeFrameTwisting

SpecHanded == InitHanded /\ [][NextHanded]_vars

(***************************************************************************)
(* Specification SpecFrenet: computeFrenetFrames on up to MaxPoints curve  *)
(* points on a small grid, the x coordinate of a point possibly            *)
(* not-a-number.                                                           *)
(***************************************************************************)
CurvePointSet ==
    {<<x, Num(y), Num(z)>> : x \in {Num(0), Num(1), NaN}, y \in 0..1, z \in 0..1}

InitFrenet ==
    /\ RendererNew
    /\ ViewerNew
    /\ SplineIdle
    /\ RibbonIdle
    /\ ArcIdle
    /\ curvePoints \in UNION {[1..n -> CurvePointSet] : n \in 2..MaxPoints}
    /\ groupPoints = <<>>
    /\ curveFrames = <<>>
    /\ framesIn = <<>>
    /\ frames = <<>>
    /\ pcFrames = "points"
    /\ pdbText = NoText
    /\ ParserNew
    /\ AnalyzerNew
    /\ SmoothIdle
    /\ GeneratorNew
    /\ ExtrudeIdle

\* computeFrenetFrames(points): a frame per point, then minimizeFrameTwisting
ComputeFrenetFrames ==
    /\ pcFrames = "points"
    /\ framesIn' = FrenetFrames(curvePoints)
    /\ frames' = minimizeFrameTwisting(FrenetFrames(curvePoints))
    /\ pcFrames' = "done"
    /\ UNCHANGED <<curvePoints, groupPoints, curveFrames>>
    /\ UNCHANGED <<varsSmooth, varsParse, analyzed, varsGen, varsExtrude, varsRenderer, varsConsole, varsSpline, varsRibbon, varsArc>>

NextFrenet == ComputeFrenetFrames

SpecFrenet == InitFrenet /\ [][NextFrenet]_vars

(***************************************************************************)
(* Specification SpecRuns: generateSmoothCurves on the groups of a chain   *)
(* whose neighbouring segments differ in type, so that every group holds   *)
(* one segment: the two points of group g are backbone points g and g+1.   *)
(***************************************************************************)
BackbonePointSet == {<<Num(x), Num(y), Num(z)>> : x \in 0..1, y \in 0..1, z \in 0..1}

GroupsOfBackbone(points) ==
    [g \in 1..(Len(points) - 1) |-> <<points[g], points[g + 1]>>]

InitRuns ==
    /\ RendererNew
    /\ ViewerNew
    /\ SplineIdle
    /\ RibbonIdle
    /\ ArcIdle
    /\ curvePoints = <<>>
    /\ framesIn = <<>>
    /\ frames = <<>>
    /\ \E n \in 1..MaxRuns :
          \E points \in [1..(n + 1) -> BackbonePointSet] :
              groupPoints = GroupsOfBackbone(points)
    /\ curveFrames = <<>>
    /\ pcFrames = "groups"
    /\ pdbText = NoText
    /\ ParserNew
    /\ AnalyzerNew
    /\ SmoothIdle
    /\ GeneratorNew
    /\ ExtrudeIdle

GenerateSmoothCurves ==
    /\ pcFrames = "groups"
    /\ curveFrames' = CurveFramesOf(groupPoints, Sampling)
    /\ pcFrames' = "done"
    /\ UNCHANGED <<curvePoints, framesIn, frames, groupPoints>>
    /\ UNCHANGED <<varsSmooth, varsParse, analyzed, varsGen, varsExtrude, varsRenderer, varsConsole, varsSpline, varsRibbon, varsArc>>

NextRuns == GenerateSmoothCurves

SpecRuns == InitRuns /\ [][NextRuns]_vars

(***************************************************************************)
(* Specification SpecSpan: getPointAt(t) on a curve of up to               *)
(* MaxControlPoints control points, t from -1 to 2.                        *)
(***************************************************************************)
\* control points are told apart by their place only
ControlPointSeqs == {[i \in 1..n |-> i] : n \in 0..MaxControlPoints}

InitSpan ==
    /\ RendererNew
    /\ ViewerNew
    /\ RibbonIdle
    /\ ArcIdle
    /\ controlPoints \in ControlPointSeqs
    /\ tQuery \in (-TUnit)..(2 * TUnit)
    /\ pointAt = [read |-> <<>>, localT |-> 0]
    /\ pcSpline = "call"
    /\ CurvesIdle
    /\ pdbText = NoText
    /\ ParserNew
    /\ AnalyzerNew
    /\ SmoothIdle
    /\ GeneratorNew
    /\ ExtrudeIdle
    /\ FramesIdle

GetPointAt ==
    /\ pcSpline = "call"
    /\ pointAt' = getPointAt(Len(controlPoints), tQuery, TUnit)
    /\ pcSpline' = "done"
    /\ UNCHANGED <<controlPoints, tQuery, arrays, splineCurves, lastTangent, splineLog>>
    /\ UNCHANGED <<varsSmooth, varsParse, analyzed, varsGen, varsExtrude, varsFrames, varsRenderer, varsConsole, varsRibbon, varsArc>>

NextSpan == GetPointAt

SpecSpan == InitSpan /\ [][NextSpan]_vars

(***************************************************************************)
(* Specification SpecCache: setControlPoints, addControlPoint and          *)
(* getTangentAt on two curve instances.  The caller holds two arrays of    *)
(* four control points; a curve is constructed on one of them or on an     *)
(* empty array of its own.                                                 *)
(***************************************************************************)
CurveIds == {1, 2}

\* arrays 1 and 2 are the caller's, array c + 2 is the one the constructor
\* of curve c makes when no array is given
CallerArrays == {1, 2}

NewPoint == 9

\* 0.49995 and 0.5 share the cache key 5000; 1 has the key 10000
CacheTs == {CacheUnit \div 2 - 1, CacheUnit \div 2, CacheUnit}

InitCache ==
    /\ RendererNew
    /\ ViewerNew
    /\ RibbonIdle
    /\ ArcIdle
    /\ controlPoints = <<>>
    /\ tQuery = 0
    /\ pointAt = [read |-> <<>>, localT |-> 0]
    /\ pcSpline = "idle"
    /\ arrays = <<<<1, 2, 3, 4>>, <<5, 6, 7, 8>>, <<>>, <<>>>>
    /\ \E given \in [CurveIds -> CallerArrays \cup {0}] :
          splineCurves = [c \in CurveIds |->
              [controlPoints |-> IF given[c] = 0 THEN c + 2 ELSE given[c],
               tangentCache |-> NoCache]]
    /\ lastTangent = [curve |-> 0, t |-> 0, tangent |-> <<>>]
    /\ splineLog = <<>>
    /\ pdbText = NoText
    /\ ParserNew
    /\ AnalyzerNew
    /\ SmoothIdle
    /\ GeneratorNew
    /\ ExtrudeIdle
    /\ FramesIdle

SetControlPoints(c, array) ==
    /\ Len(splineLog) < MaxSplineCalls
    /\ splineCurves' = [splineCurves EXCEPT ![c] = setControlPoints(@, array)]
    /\ splineLog' = Append(splineLog, [op |-> "setControlPoints", curve |-> c])
    /\ UNCHANGED <<arrays, lastTangent, controlPoints, tQuery, pointAt, pcSpline>>
    /\ UNCHANGED <<varsSmooth, varsParse, analyzed, varsGen, varsExtrude, varsFrames, varsRenderer, varsConsole, varsRibbon, varsArc>>

\* this.controlPoints.push(point), then invalidateCache()
AddControlPoint(c) ==
    /\ Len(splineLog) < MaxSplineCalls
    /\ arrays' = [arrays EXCEPT ![splineCurves[c].controlPoints] = Append(@, NewPoint)]
    /\ splineCurves' = [splineCurves EXCEPT ![c].tangentCache = invalidateCache]
    /\ splineLog' = Append(splineLog, [op |-> "addControlPoint", curve |-> c])
    /\ UNCHANGED <<lastTangent, controlPoints, tQuery, pointAt, pcSpline>>
    /\ UNCHANGED <<varsSmooth, varsParse, analyzed, varsGen, varsExtrude, varsFrames, varsRenderer, varsConsole, varsRibbon, varsArc>>

GetTangentAt(c, t) ==
    /\ Len(splineLog) < MaxSplineCalls
    /\ LET r == getTangentAt(splineCurves[c], arrays[splineCurves[c].controlPoints], t)
       IN /\ lastTangent' = [curve |-> c, t |-> t, tangent |-> r.tangent]
          /\ splineCurves' = [splineCurves EXCEPT ![c] = r.curve]
    /\ splineLog' = Append(splineLog, [op |-> "getTangentAt", curve |-> c])
    /\ UNCHANGED <<arrays, controlPoints, tQuery, pointAt, pcSpline>>
    /\ UNCHANGED <<varsSmooth, varsParse, analyzed, varsGen, varsExtrude, varsFrames, varsRenderer, varsConsole, varsRibbon, varsArc>>

NextCache ==
    \/ \E c \in CurveIds, array \in CallerArrays : SetControlPoints(c, array)
    \/ \E c \in CurveIds : AddControlPoint(c)
    \/ \E c \in CurveIds, t \in CacheTs : GetTangentAt(c, t)

SpecCache == InitCache /\ [][NextCache]_vars

(***************************************************************************)
(* RibbonGeometryGenerator: profiles, segments and segment meshes          *)
(*                                                                         *)
(* A profile is held as the number of its points, a vertex as the ring and *)
(* the profile point it was made of.                                       *)
(***************************************************************************)
HelixProfilePoints == 12
FlatProfilePoints == 4
PointsPerResidue == 8
SegmentLength == 4
MinBackboneAtoms == 4

getProfileForSecondaryStructure(ssType) ==
    IF ssType = "helix" THEN HelixProfilePoints ELSE FlatProfilePoints

interpolateProfiles(profile1, profile2) == Max(profile1, profile2)

\* the loop of smoothTransitions from segment i (counted from 0) on; the
\* segments are changed in place, so prev.profile is the blended one
RECURSIVE smoothTransitionsFrom(_, _)
smoothTransitionsFrom(segments, i) ==
    IF i >= Len(segments) - 1 THEN segments
    ELSE LET prev == segments[i]
             current == segments[i + 1]
         IN smoothTransitionsFrom(
                IF prev.secondaryStructure # current.secondaryStructure
                THEN [segments EXCEPT ![i + 1].profile =
                          interpolateProfiles(prev.profile, current.profile)]
                ELSE segments,
                i + 1)

smoothTransitions(segments) == smoothTransitionsFrom(segments, 1)

\* generateSegments on residues of the given secondary structures
generateSegments(labels) ==
    smoothTransitions(
        [i \in 1..(Len(labels) * PointsPerResidue) |->
            LET residueIndex == (i - 1) \div PointsPerResidue
                ssType == labels[Min(residueIndex, Len(labels) - 1) + 1]
            IN [secondaryStructure |-> ssType,
                profile |-> getProfileForSecondaryStructure(ssType)]])

\* the vertices of rings i.. of a group, ring by ring
RECURSIVE RibbonPositions(_, _)
RibbonPositions(segments, i) ==
    IF i > Len(segments) THEN <<>>
    ELSE [k \in 1..segments[i].profile |-> [ring |-> i - 1, point |-> k - 1]]
            \o RibbonPositions(segments, i + 1)

\* the two triangles of quad j between rings i and i + 1
RibbonQuad(i, j, profileSize) ==
    LET next == (j + 1) % profileSize
        c1 == i * profileSize + j
        c2 == i * profileSize + next
        n1 == (i + 1) * profileSize + j
        n2 == (i + 1) * profileSize + next
    IN <<c1, n1, c2, c2, n1, n2>>

RECURSIVE RibbonRingFaces(_, _, _)
RibbonRingFaces(i, j, profileSize) ==
    IF j >= profileSize THEN <<>>
    ELSE RibbonQuad(i, j, profileSize) \o RibbonRingFaces(i, j + 1, profileSize)

RECURSIVE RibbonFaces(_, _)
RibbonFaces(segments, i) ==
    IF i >= Len(segments) - 1 THEN <<>>
    ELSE RibbonRingFaces(i, 0, segments[i + 1].profile) \o RibbonFaces(segments, i + 1)

\* createSegmentMesh, called with groups of two segments or more
createSegmentMesh(segments) ==
    [positions |-> RibbonPositions(segments, 1),
     indices |-> RibbonFaces(segments, 0)]

\* the mesh of every group of SegmentLength + 1 segments
RECURSIVE createRibbonMeshesFrom(_, _)
createRibbonMeshesFrom(segments, i) ==
    IF i >= Len(segments) - SegmentLength THEN <<>>
    ELSE <<createSegmentMesh(SubSeq(segments, i + 1, i + SegmentLength + 1))>>
            \o createRibbonMeshesFrom(segments, i + SegmentLength)

createRibbonMeshes(segments) == createRibbonMeshesFrom(segments, 0)

(***************************************************************************)
(* Specification SpecRibbon: generateRibbon on chains of MinBackboneAtoms  *)
(* to MaxRibbonResidues protein residues, each with a CA atom, of every    *)
(* secondary structure.                                                    *)
(***************************************************************************)
InitRibbon ==
    /\ RendererNew
    /\ ViewerNew
    /\ SplineIdle
    /\ ribbonSegments = <<>>
    /\ ribbonMeshes = <<>>
    /\ pcRibbon = "input"
    /\ ArcIdle
    /\ pdbText = NoText
    /\ ParserNew
    /\ AnalyzerNew
    /\ SmoothIdle
    /\ GeneratorNew
    /\ ExtrudeIdle
    /\ FramesIdle

GenerateRibbon(labels) ==
    /\ pcRibbon = "input"
    /\ ribbonSegments' = generateSegments(labels)
    /\ ribbonMeshes' = createRibbonMeshes(generateSegments(labels))
    /\ pcRibbon' = "done"
    /\ UNCHANGED <<varsSmooth, varsParse, analyzed, varsGen, varsExtrude, varsFrames, varsRenderer, varsConsole, varsSpline, varsArc>>

NextRibbon ==
    \E n \in MinBackboneAtoms..MaxRibbonResidues :
        \E labels \in [1..n -> SSLabels] : GenerateRibbon(labels)

SpecRibbon == InitRibbon /\ [][NextRibbon]_vars

(***************************************************************************)
(* BSplineCurve: arc length                                                *)
(*                                                                         *)
(* A curve is held as the lengths of its chords, chord i being the         *)
(* distance between getPointAt((i-1)/subdivisions) and                     *)
(* getPointAt(i/subdivisions); subdivisions is the number of chords.  A    *)
(* length is a whole number, a target length the fraction num/den, a       *)
(* parameter the fraction num/den or not-a-number.                         *)
(***************************************************************************)
RECURSIVE SumOfChords(_, _)
SumOfChords(chords, n) == IF n = 0 THEN 0 ELSE SumOfChords(chords, n - 1) + chords[n]

getArcLength(chords) == SumOfChords(chords, Len(chords))

\* the loop of getParameterByArcLength from subdivision i on
RECURSIVE ParameterFrom(_, _, _, _, _)
ParameterFrom(chords, num, den, i, currentLength) ==
    IF i > Len(chords) THEN [nan |-> FALSE, num |-> 1, den |-> 1]
    ELSE LET segmentLength == chords[i]
         IN IF (currentLength + segmentLength) * den >= num
            THEN \* ratio = (targetLength - currentLength) / segmentLength
                 IF segmentLength = 0
                 THEN IF num - currentLength * den = 0
                      THEN [nan |-> TRUE, num |-> 0, den |-> 1]
                      ELSE [nan |-> FALSE, num |-> -1, den |-> 0]
                 ELSE [nan |-> FALSE,
                       num |-> (i - 1) * segmentLength * den + num - currentLength * den,
                       den |-> segmentLength * den * Len(chords)]
            ELSE ParameterFrom(chords, num, den, i + 1, currentLength + segmentLength)

\* getParameterByArcLength(num / den, subdivisions)
getParameterByArcLength(chords, num, den) == ParameterFrom(chords, num, den, 1, 0)

\* the parameters sampleUniform(numSamples) gives to getPointAt
sampleUniform(chords, numSamples) ==
    [k \in 1..numSamples |->
        getParameterByArcLength(chords, (k - 1) * getArcLength(chords), numSamples - 1)]

(***************************************************************************)
(* Specification SpecArc: getParameterByArcLength and sampleUniform on     *)
(* curves of up to MaxSubdivisions chords of length 0..MaxChord.           *)
(***************************************************************************)
InitArc ==
    /\ RendererNew
    /\ ViewerNew
    /\ SplineIdle
    /\ RibbonIdle
    /\ \E n \in 1..MaxSubdivisions : arcChords \in [1..n -> 0..MaxChord]
    /\ arcTarget \in 0..(MaxSubdivisions * MaxChord + 1)
    /\ arcParameter = [nan |-> FALSE, num |-> 0, den |-> 1]
    /\ arcSamples = <<>>
    /\ pcArc = "input"
    /\ pdbText = NoText
    /\ ParserNew
    /\ AnalyzerNew
    /\ SmoothIdle
    /\ GeneratorNew
    /\ ExtrudeIdle
    /\ FramesIdle

GetParameterByArcLength ==
    /\ pcArc = "input"
    /\ arcParameter' = getParameterByArcLength(arcChords, arcTarget, 1)
    /\ pcArc' = "parameter"
    /\ UNCHANGED <<arcChords, arcTarget, arcSamples>>
    /\ UNCHANGED <<varsSmooth, varsParse, analyzed, varsGen, varsExtrude, varsFrames, varsRenderer, varsConsole, varsSpline, varsRibbon>>

SampleUniform(numSamples) ==
    /\ pcArc = "input"
    /\ arcSamples' = sampleUniform(arcChords, numSamples)
    /\ pcArc' = "samples"
    /\ UNCHANGED <<arcChords, arcTarget, arcParameter>>
    /\ UNCHANGED <<varsSmooth, varsParse, analyzed, varsGen, varsExtrude, varsFrames, varsRenderer, varsConsole, varsSpline, varsRibbon>>

NextArc ==
    \/ GetParameterByArcLength
    \/ \E numSamples \in 2..MaxArcSamples : SampleUniform(numSamples)

SpecArc == InitArc /\ [][NextArc]_vars

(***************************************************************************)
(* Specification SpecMalformed: parse() of one helical protein chain in    *)
(* which any line may hold text in its serial-number columns or in its     *)
(* coordinate columns.                                                     *)
(***************************************************************************)
FieldTexts == {<<"num", "num">>, <<"text", "num">>, <<"num", "text">>}

MalformedLines(n, fields) ==
    [i \in 1..n |->
        [rec |-> "ATOM", serial |-> fields[i][1], name |-> "CA", resName |-> "ALA",
         chainId |-> "A", resSeq |-> i, iCode |-> "", xyz |-> fields[i][2],
         d |-> 38, turn |-> 100, torsion |-> 60]]

InitMalformed ==
    /\ RendererNew
    /\ ViewerNew
    /\ SplineIdle
    /\ RibbonIdle
    /\ ArcIdle
    /\ \E n \in 0..MaxRes :
          \E fields \in [1..n -> FieldTexts] :
              pdbText = [atomLines |-> MalformedLines(n, fields),
                         helixLines |-> <<>>,
                         sheetLines |-> <<>>]
    /\ ParserNew
    /\ AnalyzerNew
    /\ SmoothIdle
    /\ GeneratorNew
    /\ ExtrudeIdle
    /\ FramesIdle

NextMalformed == Parse

SpecMalformed == InitMalformed /\ [][NextMalformed]_vars

(***************************************************************************)
(* Specification SpecHeader: parse() of two helical protein chains with at *)
(* most one HELIX and one SHEET record, taken pass by pass: the line loop  *)
(* with buildResidues and buildChains, then assignFromPDBRecords, then     *)
(* assignByGeometry and buildLigands.                                      *)
(***************************************************************************)
HeaderChainIds == {"A", "B"}

ChainLines(c, n) ==
    [i \in 1..n |->
        [rec |-> "ATOM", serial |-> "num", xyz |-> "num", name |-> "CA",
         resName |-> "ALA", chainId |-> c, resSeq |-> i, iCode |-> "",
         d |-> 38, turn |-> 100, torsion |-> 60]]

HeaderRecords ==
    {<<>>} \cup {<<[initChainId |-> c, initResSeq |-> r[1], endResSeq |-> r[2]]>> :
                    c \in HeaderChainIds,
                    r \in {p \in (1..MaxSeq) \X (1..MaxSeq) : p[1] <= p[2]}}

HeaderTexts ==
    UNION {[atomLines : {ChainLines("A", nA) \o ChainLines("B", nB)},
            helixLines : HeaderRecords,
            sheetLines : HeaderRecords] : nA \in 0..MaxSeq, nB \in 0..MaxSeq}

InitHeader ==
    /\ RendererNew
    /\ ViewerNew
    /\ SplineIdle
    /\ RibbonIdle
    /\ ArcIdle
    /\ pdbText \in HeaderTexts
    /\ ParserNew
    /\ AnalyzerNew
    /\ SmoothIdle
    /\ GeneratorNew
    /\ ExtrudeIdle
    /\ FramesIdle

\* parse() up to and including buildChains
ReadLines ==
    /\ pcParse = "new"
    /\ LET as == ParseAtoms(pdbText.atomLines)
           built == buildResidues(as)
       IN /\ atoms' = as
          /\ residues' = built
          /\ chains' = buildChains(built)
    /\ helices' = pdbText.helixLines
    /\ sheets' = pdbText.sheetLines
    /\ pcParse' = "built"
    /\ UNCHANGED <<pdbText, ligands, analyzed>>
    /\ UNCHANGED <<varsSmooth, varsGen, varsExtrude, varsFrames, varsRenderer, varsConsole, varsSpline, varsRibbon, varsArc>>

\* the first pass of assignSecondaryStructure
AssignFromPDBRecords ==
    /\ pcParse = "built"
    /\ residues' = assignFromPDBRecords(residues, helices, sheets)
    /\ pcParse' = "header"
    /\ UNCHANGED <<pdbText, atoms, chains, ligands, helices, sheets, analyzed>>
    /\ UNCHANGED <<varsSmooth, varsGen, varsExtrude, varsFrames, varsRenderer, varsConsole, varsSpline, varsRibbon, varsArc>>

\* the second pass of assignSecondaryStructure, then buildLigands
AssignByGeometry ==
    /\ pcParse = "header"
    /\ LET labelled == assignByGeometry(atoms, residues, chains, 1)
       IN /\ residues' = MarkLigands(atoms, labelled)
          /\ ligands' = LigandsFrom(atoms, labelled, 1)
    /\ pcParse' = "parsed"
    /\ UNCHANGED <<pdbText, atoms, chains, helices, sheets, analyzed>>
    /\ UNCHANGED <<varsSmooth, varsGen, varsExtrude, varsFrames, varsRenderer, varsConsole, varsSpline, varsRibbon, varsArc>>

NextHeader ==
    \/ ReadLines
    \/ AssignFromPDBRecords
    \/ AssignByGeometry

SpecHeader == InitHeader /\ [][NextHeader]_vars

(***************************************************************************)
(* Specification SpecProteins: addProtein, removeProtein and               *)
(* clearAllProteins on one renderer, in any order.                         *)
(***************************************************************************)
ProteinFiles == {"1erm.pdb", "1crn.pdb", "2hhb.pdb"}

InitProteins ==
    /\ RendererNew
    /\ ViewerNew
    /\ SplineIdle
    /\ RibbonIdle
    /\ ArcIdle
    /\ pdbText = [atomLines |-> <<>>, helixLines |-> <<>>, sheetLines |-> <<>>]
    /\ ParserNew
    /\ AnalyzerNew
    /\ SmoothIdle
    /\ GeneratorNew
    /\ ExtrudeIdle
    /\ FramesIdle

AddProtein(filename) ==
    /\ Len(calls) < MaxCalls
    /\ LET r == addProtein(Renderer, filename, FALSE, Len(calls) + 1)
       IN /\ proteins' = r.proteins
          /\ nextProteinPosition' = r.nextProteinPosition
    /\ calls' = Append(calls, [op |-> "addProtein", filename |-> filename])
    /\ added' = "true"
    /\ UNCHANGED <<removed, showCartoon, showBackbone, showSticks, showSpheres>>
    /\ UNCHANGED <<varsConsole, varsSmooth, varsParse, analyzed, varsGen, varsExtrude, varsFrames, varsSpline, varsRibbon, varsArc>>

RemoveProtein(filename) ==
    /\ Len(calls) < MaxCalls
    /\ LET r == removeProtein(Renderer, filename)
       IN /\ proteins' = r.renderer.proteins
          /\ nextProteinPosition' = r.renderer.nextProteinPosition
          /\ removed' = IF r.result THEN "true" ELSE "false"
    /\ calls' = Append(calls, [op |-> "removeProtein", filename |-> filename])
    /\ UNCHANGED <<added, showCartoon, showBackbone, showSticks, showSpheres>>
    /\ UNCHANGED <<varsConsole, varsSmooth, varsParse, analyzed, varsGen, varsExtrude, varsFrames, varsSpline, varsRibbon, varsArc>>

ClearAllProteins ==
    /\ Len(calls) < MaxCalls
    /\ LET r == clearAllProteins(Renderer)
       IN /\ proteins' = r.proteins
          /\ nextProteinPosition' = r.nextProteinPosition
    /\ calls' = Append(calls, [op |-> "clearAllProteins", filename |-> ""])
    /\ UNCHANGED <<removed, added, showCartoon, showBackbone, showSticks, showSpheres>>
    /\ UNCHANGED <<varsConsole, varsSmooth, varsParse, analyzed, varsGen, varsExtrude, varsFrames, varsSpline, varsRibbon, varsArc>>

NextProteins ==
    \/ \E filename \in ProteinFiles : AddProtein(filename)
    \/ \E filename \in ProteinFiles : RemoveProtein(filename)
    \/ ClearAllProteins

SpecProteins == InitProteins /\ [][NextProteins]_vars

(***************************************************************************)
(* Specification SpecLoadFail: addProtein and loadProtein calls that       *)
(* succeed or throw at one of their throwing steps.                        *)
(***************************************************************************)
AddProteinFailing(filename, clearFirst, thrownAt) ==
    /\ Len(calls) < MaxCalls
    /\ LET r == addProteinFailing(Renderer, filename, clearFirst, Len(calls) + 1, thrownAt)
       IN /\ proteins' = r.proteins
          /\ nextProteinPosition' = r.nextProteinPosition
    /\ calls' = Append(calls, [op |-> "addProtein", filename |-> filename])
    /\ added' = "false"
    /\ UNCHANGED <<removed, showCartoon, showBackbone, showSticks, showSpheres>>
    /\ UNCHANGED <<varsConsole, varsSmooth, varsParse, analyzed, varsGen, varsExtrude, varsFrames, varsSpline, varsRibbon, varsArc>>

NextLoadFail ==
    \/ \E filename \in ProteinFiles : AddProtein(filename)
    \/ \E filename \in ProteinFiles, clearFirst \in BOOLEAN, thrownAt \in ThrowingSteps :
          AddProteinFailing(filename, clearFirst, thrownAt)

SpecLoadFail == InitProteins /\ [][NextLoadFail]_vars

(***************************************************************************)
(* Specification SpecConsole: commands typed into the console of a viewer  *)
(* whose localStorage holds a history an earlier session saved, and page   *)
(* reloads in between.                                                     *)
(***************************************************************************)
Commands == {<<"cartoon">>, <<"backbone">>, <<"show", "cartoon">>,
             <<"hide", "cartoon">>, <<"hide">>, <<"history", "clear">>, <<"help">>}

\* a history an earlier session left in localStorage
SavedHistory(n) == [i \in 1..n |-> IF i % 2 = 1 THEN <<"cartoon">> ELSE <<"hide">>]

SavedLengths == {0, 1, HistoryCap - 1, HistoryCap}

InitConsole ==
    /\ RendererNew
    /\ SplineIdle
    /\ RibbonIdle
    /\ ArcIdle
    /\ \E n \in SavedLengths : storedHistory = SavedHistory(n)
    /\ commandHistory = loadCommandHistory(storedHistory)
    /\ lastCommand = <<>>
    /\ commandsRun = 0
    /\ pdbText = [atomLines |-> <<>>, helixLines |-> <<>>, sheetLines |-> <<>>]
    /\ ParserNew
    /\ AnalyzerNew
    /\ SmoothIdle
    /\ GeneratorNew
    /\ ExtrudeIdle
    /\ FramesIdle

ProcessCommand(command) ==
    /\ commandsRun < MaxCommands
    /\ LET cmd == command[1]
           args == Tail(command)
           h == addCommandToHistory(commandHistory, storedHistory, command)
           after == CommandHistoryAfter(h, cmd, args)
           flags == CommandFlags(Flags, cmd, args)
       IN /\ commandHistory' = after.commandHistory
          /\ storedHistory' = after.storedHistory
          /\ showCartoon' = flags.showCartoon
          /\ showBackbone' = flags.showBackbone
          /\ showSticks' = flags.showSticks
          /\ showSpheres' = flags.showSpheres
    /\ lastCommand' = command
    /\ commandsRun' = commandsRun + 1
    /\ UNCHANGED <<proteins, nextProteinPosition, removed, calls, added>>
    /\ UNCHANGED <<varsSmooth, varsParse, analyzed, varsGen, varsExtrude, varsFrames, varsSpline, varsRibbon, varsArc>>

\* the page is loaded again: a new viewer and a new renderer are constructed
Reload ==
    /\ commandHistory' = loadCommandHistory(storedHistory)
    /\ lastCommand' = <<>>
    /\ showCartoon' = NewFlags.showCartoon
    /\ showBackbone' = NewFlags.showBackbone
    /\ showSticks' = NewFlags.showSticks
    /\ showSpheres' = NewFlags.showSpheres
    /\ proteins' = <<>>
    /\ nextProteinPosition' = Origin
    /\ UNCHANGED <<storedHistory, commandsRun, removed, calls, added>>
    /\ UNCHANGED <<varsSmooth, varsParse, analyzed, varsGen, varsExtrude, varsFrames, varsSpline, varsRibbon, varsArc>>

NextConsole ==
    \/ \E command \in Commands : ProcessCommand(command)
    \/ Reload

SpecConsole == InitConsole /\ [][NextConsole]_vars

(***************************************************************************)
(* Runs of a label                                                          *)
(***************************************************************************)
\* positions lo..hi form a maximal contiguous run of label t in a
IsMaximalRun(a, t, lo, hi) ==
    /\ 1 <= lo /\ lo <= hi /\ hi <= Len(a)
    /\ \A k \in lo..hi : a[k] = t
    /\ (lo = 1 \/ a[lo - 1] # t)
    /\ (hi = Len(a) \/ a[hi + 1] # t)

NoShortRun(a, t, minLength) ==
    \A lo \in 1..Len(a) : \A hi \in lo..Len(a) :
        IsMaximalRun(a, t, lo, hi) => hi - lo + 1 >= minLength

\* C1: after the smoothing pass no maximal helix run is shorter than 4 and
\* no maximal sheet run is shorter than 3, for every input label sequence.
C1_MinRunLengths ==
    pcSmooth = "done" =>
        /\ NoShortRun(smoothed, "helix", HelixMinLength)
        /\ NoShortRun(smoothed, "sheet", SheetMinLength)

\* the input had a helix run of length 3 and a sheet run of length 2, and the
\* pass has run
C1_Witness ==
    /\ pcSmooth = "done"
    /\ \E lo \in 1..Len(assignments) : IsMaximalRun(assignments, "helix", lo, lo + 2)
    /\ \E lo \in 1..Len(assignments) : IsMaximalRun(assignments, "sheet", lo, lo + 1)

\* a maximal coil run of length 1 or 2 whose two neighbours carry the same
\* structured label
HasFlankedGap(a) ==
    \E lo \in 2..Len(a) : \E hi \in lo..(lo + 1) :
        /\ hi < Len(a)
        /\ IsMaximalRun(a, "coil", lo, hi)
        /\ a[lo - 1] = a[hi + 1]

\* C2: after the smoothing pass there is no maximal coil run of length 1 or 2
\* flanked on both sides by the same structured label.
C2_NoFlankedShortGap ==
    pcSmooth = "done" => ~HasFlankedGap(smoothed)

\* the input had a two-residue coil gap between two sheet runs that survive
\* the minimum-length pass, and the output has it filled
C2_Witness ==
    /\ pcSmooth = "done"
    /\ \E lo \in 4..Len(assignments) :
        /\ lo + 4 <= Len(assignments)
        /\ IsMaximalRun(assignments, "coil", lo, lo + 1)
        /\ \A k \in (lo - 3)..(lo - 1) : assignments[k] = "sheet"
        /\ \A k \in (lo + 2)..(lo + 4) : assignments[k] = "sheet"
        /\ smoothed[lo] = "sheet" /\ smoothed[lo + 1] = "sheet"


\* C5: after parse() every parsed atom is in exactly one residue, that
\* residue carries the atom's (chainId, resSeq, iCode), atoms with the same
\* key share a residue, and the residues' atom counts sum to the atom count.
AtomInResidue(a, r) == \E k \in 1..Len(residues[r].atoms) : residues[r].atoms[k] = a

SameKey(a, b) ==
    /\ atoms[a].chainId = atoms[b].chainId
    /\ atoms[a].resSeq = atoms[b].resSeq
    /\ atoms[a].iCode = atoms[b].iCode

C5_AtomPartition ==
    pcParse = "parsed" =>
        /\ Len(atoms) = Len(pdbText.atomLines)
        /\ \A a \in 1..Len(atoms) :
              /\ Cardinality({r \in 1..Len(residues) : AtomInResidue(a, r)}) = 1
              /\ \A r \in 1..Len(residues) :
                    AtomInResidue(a, r) =>
                        /\ residues[r].chainId = atoms[a].chainId
                        /\ residues[r].resSeq = atoms[a].resSeq
                        /\ residues[r].iCode = atoms[a].iCode
        /\ \A a, b \in 1..Len(atoms) :
              SameKey(a, b) =>
                  \A r \in 1..Len(residues) : AtomInResidue(a, r) <=> AtomInResidue(b, r)
        /\ SumSeq([r \in 1..Len(residues) |-> Len(residues[r].atoms)]) = Len(atoms)

\* a parsed text with two atoms of the same chain and sequence number but
\* different insertion codes, which lie in different residues
C5_Witness ==
    /\ pcParse = "parsed"
    /\ \E a, b \in 1..Len(atoms) :
          /\ a # b
          /\ atoms[a].chainId = atoms[b].chainId
          /\ atoms[a].resSeq = atoms[b].resSeq
          /\ atoms[a].iCode # atoms[b].iCode
          /\ \E r \in 1..Len(residues) : AtomInResidue(a, r) /\ ~AtomInResidue(b, r)
    /\ \E r \in 1..Len(residues) : Len(residues[r].atoms) = 1

(***************************************************************************)
(* Labels after parse() and after analyzeChain                             *)
(***************************************************************************)
\* the labels of the residues of chain c, in chain order
ChainLabels(c) ==
    [k \in 1..Len(chains[c].residues) |->
        residues[chains[c].residues[k]].secondaryStructure]

\* the labels right after the header pass
HeaderLabels ==
    LET rs == assignFromPDBRecords(buildResidues(atoms), helices, sheets)
    IN [i \in 1..Len(rs) |-> rs[i].secondaryStructure]

\* C3: the labels of a structure returned by PDBParser.parse have been
\* through the smoothing pass, i.e. smoothing them again changes nothing
\* (no helix run under 4, no sheet run under 3, no flanked gap of 1 or 2).
C3_ParsedLabelsSmoothed ==
    (pcParse = "parsed" /\ analyzed = {}) =>
        \A c \in 1..Len(chains) : ChainLabels(c) = smoothAssignments(ChainLabels(c))

\* C4: every residue labeled helix or sheet by the header pass keeps that
\* label after the geometric pass, of PDBParser.parse and of analyzeChain.
C4_HeaderLabelsKept ==
    pcParse = "parsed" =>
        \A i \in 1..Len(residues) :
            HeaderLabels[i] # "coil" => residues[i].secondaryStructure = HeaderLabels[i]

(***************************************************************************)
(* Extrusion of a circle                                                   *)
(***************************************************************************)
\* C6 as stated: a circle of n sides over m >= 2 samples gives m*n vertices
\* and (m-1)*n*6 indices.
C6_SideCountGeometry ==
    (pcExtrude = "done" /\ exSamples >= 2) =>
        /\ Len(exGeometry.vertices) = exSamples * exSides
        /\ Len(exGeometry.indices) = (exSamples - 1) * exSides * 6

\* C6: circle(extrude, n, r) stores n + 1 shape points, so for n >= 2 sides
\* and m >= 2 samples the geometry has m*(n+1) vertices and (m-1)*(n+1)*6
\* indices; for n < 2 the geometry is empty.
C6_ClosedProfileGeometry ==
    (pcExtrude = "done" /\ exSamples >= 2) =>
        IF exSides >= 2
        THEN /\ Len(exGeometry.vertices) = exSamples * (exSides + 1)
             /\ Len(exGeometry.indices) = (exSamples - 1) * (exSides + 1) * 6
             /\ \A k \in 1..Len(exGeometry.indices) :
                   exGeometry.indices[k] \in 0..(Len(exGeometry.vertices) - 1)
        ELSE /\ exGeometry.vertices = <<>>
             /\ exGeometry.indices = <<>>

\* a circle of at least 3 sides extruded over at least 3 samples
C6_Witness ==
    /\ pcExtrude = "done"
    /\ exSides >= 3
    /\ exSamples >= 3
    /\ Len(exGeometry.vertices) = exSamples * (exSides + 1)

(***************************************************************************)
(* Frame twisting                                                          *)
(***************************************************************************)
\* C7: after minimizeFrameTwisting the normals of every two consecutive
\* frames have a dot product >= 0.
C7_ConsecutiveNormalsAgree ==
    pcFrames = "done" =>
        \A i \in 1..(Len(frames) - 1) : Dot(frames[i].normal, frames[i + 1].normal) >= 0

\* three frames or more were given, two consecutive ones with opposed normals
C7_Witness ==
    /\ pcFrames = "done"
    /\ Len(framesIn) >= 3
    /\ \E i \in 1..(Len(framesIn) - 1) :
          Dot(framesIn[i].normal, framesIn[i + 1].normal) < 0
    /\ frames # framesIn

(***************************************************************************)
(* generateCartoon                                                         *)
(***************************************************************************)
\* the residues with a CA atom of the chain named chainId, in chain order;
\* none for an unknown chain id
CaResidues(chainId) ==
    LET HasCA(i) == residues[i].ca # 0
        known == {c \in 1..Len(chains) : chains[c].id = chainId}
    IN IF known = {} THEN <<>>
       ELSE SelectSeq(chains[CHOOSE c \in known : TRUE].residues, HasCA)

\* the cartoon types of the consecutive backbone segments of the chain
SegmentTypes(chainId) ==
    LET pts == CaResidues(chainId) IN
    [k \in 1..(Len(pts) - 1) |-> CartoonTypeOf(residues[pts[k]].secondaryStructure)]

\* the positions at which a maximal run of equal types starts
RunStarts(types) == {k \in 1..Len(types) : k = 1 \/ types[k] # types[k - 1]}

RECURSIVE SegmentIndexes(_)
SegmentIndexes(groups) ==
    IF groups = <<>> THEN <<>>
    ELSE [k \in 1..Len(Head(groups).segments) |-> Head(groups).segments[k].index]
         \o SegmentIndexes(Tail(groups))

\* C8: the segments of the chain are partitioned into maximal runs of one
\* type (adjacent runs differ, the runs in order give back the segment
\* sequence) and generateCartoon returns exactly one mesh per run.
C8_OneMeshPerRun ==
    lastChainId # "none" =>
        LET types == SegmentTypes(lastChainId)
            groups == detectSecondaryStructure(residues, CaResidues(lastChainId))
        IN /\ SegmentIndexes(groups) = [k \in 1..Len(types) |-> k - 1]
           /\ \A g \in 1..Len(groups) :
                 /\ groups[g].segments # <<>>
                 /\ \A k \in 1..Len(groups[g].segments) :
                       /\ groups[g].segments[k].cartoonType = groups[g].cartoonType
                       /\ types[groups[g].segments[k].index + 1] = groups[g].cartoonType
           /\ \A g \in 1..(Len(groups) - 1) :
                 groups[g].cartoonType # groups[g + 1].cartoonType
           /\ Len(groups) = Cardinality(RunStarts(types))
           /\ Len(lastResult) = Cardinality(RunStarts(types))
           /\ \A g \in 1..Len(lastResult) :
                 lastResult[g].cartoonType = groups[g].cartoonType

\* a chain with three runs, one of them of two segments or more
C8_Witness ==
    /\ lastChainId = "A"
    /\ Len(lastResult) = 3
    /\ Len(SegmentTypes("A")) >= 4

\* C9: for a chain whose N >= 2 residues all have a CA atom and are all
\* labeled helix by a HELIX record, generateCartoon returns exactly one mesh,
\* extruded with the circular profile, whose metadata holds the chain id,
\* the label helix and the residue range [first, last].
C9_AllHelixOneChunk ==
    (/\ lastChainId = "A"
     /\ Len(residues) >= 2
     /\ Len(helices) = 1
     /\ \A i \in 1..Len(residues) :
           /\ residues[i].ca # 0
           /\ residues[i].secondaryStructure = "helix"
           /\ HeaderLabels[i] = "helix") =>
        /\ Len(lastResult) = 1
        /\ lastResult[1].shape = "circle"
        /\ lastResult[1].metadata =
              {[chainId |-> "A", secondaryStructure |-> "helix",
                residueRange |-> <<residues[1].resSeq, residues[Len(residues)].resSeq>>]}

\* the number of residues with a CA atom of the chain named chainId
BackbonePointCount(chainId) ==
    Cardinality({i \in 1..Len(residues) :
                    residues[i].chainId = chainId /\ residues[i].ca # 0})

\* C10: generateCartoon for a chain with fewer than 2 CA points, or for an
\* unknown chain id, returns the empty list and leaves this.meshes and
\* this.extrudes as they were.
C10_ShortChainNoMesh ==
    [][\A chainId \in CallChainIds :
          (/\ genCalls' = genCalls + 1
           /\ lastChainId' = chainId
           /\ BackbonePointCount(chainId) < 2) =>
              /\ lastResult' = <<>>
              /\ genMeshes' = genMeshes
              /\ genExtrudes' = genExtrudes]_vars

\* a chain of two residues or more, only one of them with a CA atom, was
\* given to generateCartoon after an unknown chain id
C10_Witness ==
    /\ genCalls = 2
    /\ lastChainId = "A"
    /\ Len(residues) >= 2
    /\ BackbonePointCount("A") = 1
    /\ lastResult = <<>>
    /\ genMeshes = <<>>

(***************************************************************************)
(* Frames of a curve                                                       *)
(***************************************************************************)
Orthonormal(frame) ==
    /\ Dot(frame.tangent, frame.tangent) > 0
    /\ Dot(frame.normal, frame.normal) > 0
    /\ Dot(frame.binormal, frame.binormal) > 0
    /\ Dot(frame.tangent, frame.normal) = 0
    /\ Dot(frame.tangent, frame.binormal) = 0
    /\ Dot(frame.normal, frame.binormal) = 0

\* C11: every frame computeFrenetFrames hands on is orthonormal: tangent,
\* normal and binormal are unit vectors (here: directions of non-zero
\* length) and their pairwise dot products are 0.
C11_FramesOrthonormal ==
    (pcFrames = "done" /\ Len(curvePoints) >= 2) =>
        \A i \in 1..Len(frames) : Orthonormal(frames[i])

(***************************************************************************)
(* Chains and ligands after parse()                                        *)
(***************************************************************************)
\* C12: after parse() no chain's residue list holds a ligand residue; every
\* residue of a chain has the chain's id and the sequence numbers along a
\* chain never decrease.
C12_ChainsHoldNoLigand ==
    pcParse = "parsed" =>
        \A c \in 1..Len(chains) :
            /\ \A k \in 1..Len(chains[c].residues) :
                  /\ ~residues[chains[c].residues[k]].isLigand
                  /\ residues[chains[c].residues[k]].chainId = chains[c].id
            /\ \A k \in 1..(Len(chains[c].residues) - 1) :
                  residues[chains[c].residues[k]].resSeq
                      <= residues[chains[c].residues[k + 1]].resSeq

\* residue i has a HETATM atom and is not water, protein or nucleic
LigandByDefinition(i) ==
    /\ \E k \in 1..Len(residues[i].atoms) : atoms[residues[i].atoms[k]].isHetAtom
    /\ residues[i].resName \notin {"HOH", "WAT"}
    /\ residues[i].resName \notin ProteinResidueNames
    /\ residues[i].resName \notin NucleicResidueNames

\* C13: after parse() a residue is flagged ligand iff it has a HETATM atom
\* and is not water, protein or nucleic; each such residue has an entry of
\* the ligands list holding its own atoms, and every entry belongs to one.
C13_LigandsExact ==
    pcParse = "parsed" =>
        /\ \A i \in 1..Len(residues) : residues[i].isLigand <=> LigandByDefinition(i)
        /\ \A i \in 1..Len(residues) :
              LigandByDefinition(i) =>
                  \E l \in 1..Len(ligands) : ligands[l].atoms = residues[i].atoms
        /\ \A l \in 1..Len(ligands) :
              \E i \in 1..Len(residues) :
                  LigandByDefinition(i) /\ ligands[l].atoms = residues[i].atoms

ProteinCount(c) ==
    Cardinality({k \in 1..Len(chains[c].residues) :
                    residues[chains[c].residues[k]].resName \in ProteinResidueNames})

NucleicCount(c) ==
    Cardinality({k \in 1..Len(chains[c].residues) :
                    residues[chains[c].residues[k]].resName \in NucleicResidueNames})

\* C14 as stated: protein only if protein residues outnumber nucleic ones,
\* nucleic only if nucleic residues outnumber protein ones, other when the
\* chain has neither kind.
C14_MajorityVote ==
    pcParse = "parsed" =>
        \A c \in 1..Len(chains) :
            /\ chains[c].type = "protein" => ProteinCount(c) > NucleicCount(c)
            /\ chains[c].type = "nucleic" => NucleicCount(c) > ProteinCount(c)
            /\ (ProteinCount(c) = 0 /\ NucleicCount(c) = 0) => chains[c].type = "other"

\* C14: a chain is protein iff its protein residues strictly outnumber its
\* nucleic residues; otherwise it is nucleic iff it has a nucleic residue
\* (a tie with the protein count included); otherwise it is other.
C14_ChainTypeRule ==
    pcParse = "parsed" =>
        \A c \in 1..Len(chains) :
            /\ chains[c].type \in {"protein", "nucleic", "other"}
            /\ chains[c].type = "protein" <=> ProteinCount(c) > NucleicCount(c)
            /\ chains[c].type = "nucleic" <=>
                  (ProteinCount(c) <= NucleicCount(c) /\ NucleicCount(c) > 0)
            /\ chains[c].type = "other" <=>
                  (ProteinCount(c) = 0 /\ NucleicCount(c) = 0)

\* a chain with as many protein as nucleic residues, typed nucleic
C14_Witness ==
    /\ pcParse = "parsed"
    /\ \E c \in 1..Len(chains) :
          /\ ProteinCount(c) = NucleicCount(c)
          /\ ProteinCount(c) > 0
          /\ chains[c].type = "nucleic"

(***************************************************************************)
(* Malformed numeric fields                                                *)
(***************************************************************************)
\* the lines with every numeric field well-formed
RepairedLines ==
    [i \in 1..Len(pdbText.atomLines) |->
        [pdbText.atomLines[i] EXCEPT !.serial = "num", !.xyz = "num"]]

WellFormed(line) == line.serial = "num" /\ line.xyz = "num"

C16_CartoonToggles ==
    [][commandsRun' # commandsRun =>
          /\ lastCommand' = <<"cartoon">> => showCartoon' = ~showCartoon
          /\ lastCommand' = <<"show", "cartoon">> => showCartoon'
          /\ lastCommand' = <<"hide", "cartoon">> => ~showCartoon']_vars

(***************************************************************************)
(* The set of loaded proteins                                              *)
(***************************************************************************)
\* the filenames added and not removed since the last clear
RECURSIVE AddedNotRemoved(_)
AddedNotRemoved(log) ==
    IF log = <<>> THEN {}
    ELSE LET before == AddedNotRemoved(SubSeq(log, 1, Len(log) - 1))
             call == log[Len(log)]
         IN CASE call.op = "addProtein" -> before \cup {call.filename}
              [] call.op = "removeProtein" -> before \ {call.filename}
              [] OTHER -> {}

\* this.proteins.get(filename)
ProteinData(ps, filename) == ps[CHOOSE i \in 1..Len(ps) : ps[i].filename = filename]

\* C17: the loaded set is the set of filenames added and not removed since
\* the last clear; addProtein of a new filename keeps the others, addProtein
\* of a loaded filename replaces it without changing the count,
\* removeProtein(f) removes f only, and removeProtein of an unknown filename
\* returns false and changes nothing.
C17_LoadedSet ==
    /\ [](/\ LoadedProteins = AddedNotRemoved(calls)
          /\ Len(proteins) = Cardinality(LoadedProteins))
    /\ [][Len(calls') = Len(calls) + 1 =>
            LET call == calls'[Len(calls')]
                f == call.filename
                OthersKept == \A g \in LoadedProteins \ {f} :
                                 /\ g \in LoadedProteins'
                                 /\ ProteinData(proteins', g) = ProteinData(proteins, g)
            IN CASE call.op = "addProtein" ->
                       /\ LoadedProteins' = LoadedProteins \cup {f}
                       /\ OthersKept
                       /\ f \in LoadedProteins =>
                             /\ Len(proteins') = Len(proteins)
                             /\ ProteinData(proteins', f).parser
                                   # ProteinData(proteins, f).parser
                 [] call.op = "removeProtein" ->
                       IF f \in LoadedProteins
                       THEN /\ removed' = "true"
                            /\ LoadedProteins' = LoadedProteins \ {f}
                            /\ OthersKept
                       ELSE /\ removed' = "false"
                            /\ proteins' = proteins
                            /\ nextProteinPosition' = nextProteinPosition
                 [] OTHER -> LoadedProteins' = {}]_vars

\* two proteins were loaded, the first of them was loaded again, and a
\* filename that is not loaded was then given to removeProtein
C17_Witness ==
    /\ Len(calls) = 4
    /\ calls[1].op = "addProtein" /\ calls[2].op = "addProtein"
    /\ calls[1].filename # calls[2].filename
    /\ calls[3] = calls[1]
    /\ calls[4].op = "removeProtein"
    /\ calls[4].filename \notin {calls[1].filename, calls[2].filename}
    /\ Len(proteins) = 2
    /\ proteins[2].filename = calls[1].filename
    /\ removed = "false"

(***************************************************************************)
(* Command history                                                         *)
(***************************************************************************)
\* C18: the in-memory history never holds two equal entries in a row, the
\* stored history is the last min(100, length) entries of the in-memory
\* history, and after `history clear` both are empty.
C18_HistoryPersisted ==
    /\ \A i \in 1..(Len(commandHistory) - 1) :
          commandHistory[i] # commandHistory[i + 1]
    /\ storedHistory =
          SubSeq(commandHistory,
                 Len(commandHistory) - Min(100, Len(commandHistory)) + 1,
                 Len(commandHistory))
    /\ lastCommand = <<"history", "clear">> =>
          commandHistory = <<>> /\ storedHistory = <<>>

\* more than 100 commands are in memory after a command was repeated
C18_Witness ==
    /\ commandsRun = 3
    /\ Len(commandHistory) = HistoryCap + 1
    /\ Len(storedHistory) = HistoryCap
    /\ storedHistory[HistoryCap] = lastCommand

(***************************************************************************)
(* Labels from geometry scores                                             *)
(***************************************************************************)
\* C19: applyGeometryAssignments labels a residue helix (sheet) exactly when
\* its confidence is above 0.5 and its helix (sheet) score is above 0.6 and
\* strictly above the other score; every other residue, one with equal
\* scores included, is labelled coil.
C19_LabelRule ==
    pcSmooth \in {"input", "done"} =>
        /\ Len(assignments) = Len(geometryScores)
        /\ \A i \in 1..Len(geometryScores) :
              LET s == geometryScores[i]
                  confident == s.confidence > 50
                  helixWins == /\ s.helix.num * s.sheet.count > s.sheet.num * s.helix.count
                               /\ 10 * s.helix.num > 6 * 60 * s.helix.count
                  sheetWins == /\ s.sheet.num * s.helix.count > s.helix.num * s.sheet.count
                               /\ 10 * s.sheet.num > 6 * 60 * s.sheet.count
              IN /\ assignments[i] = "helix" <=> (confident /\ helixWins)
                 /\ assignments[i] = "sheet" <=> (confident /\ sheetWins)
                 /\ assignments[i] = "coil" <=> ~(confident /\ (helixWins \/ sheetWins))

\* of two confident residues the one whose scores are equal and above 0.6
\* was labelled coil, the other, with the higher helix score, helix
C19_Witness ==
    /\ pcSmooth = "input"
    /\ Len(geometryScores) = 2
    /\ geometryScores[1].confidence > 50
    /\ geometryScores[1].helix = geometryScores[1].sheet
    /\ 10 * geometryScores[1].helix.num > 6 * 60 * geometryScores[1].helix.count
    /\ assignments[1] = "coil"
    /\ geometryScores[2].confidence > 50
    /\ assignments[2] = "helix"

(***************************************************************************)
(* Labels from HELIX and SHEET records                                     *)
(***************************************************************************)
\* residue r lies in the chain and the range of one of the records
InRange(r, recs) ==
    \E k \in 1..Len(recs) :
        /\ r.chainId = recs[k].initChainId
        /\ recs[k].initResSeq <= r.resSeq
        /\ r.resSeq <= recs[k].endResSeq

\* C20 as stated: after assignFromPDBRecords every residue in a HELIX
\* record's chain and range is helix, every residue in a SHEET record's
\* range is sheet, and every residue in no range is coil.
C20_HeaderLabels ==
    pcParse = "header" =>
        \A i \in 1..Len(residues) :
            /\ InRange(residues[i], helices) => residues[i].secondaryStructure = "helix"
            /\ InRange(residues[i], sheets) => residues[i].secondaryStructure = "sheet"
            /\ (~InRange(residues[i], helices) /\ ~InRange(residues[i], sheets)) =>
                  residues[i].secondaryStructure = "coil"

\* C20, amended: after assignFromPDBRecords every residue in a SHEET
\* record's chain and range is sheet, every residue in a HELIX record's
\* chain and range and in no SHEET record's is helix, and every residue in
\* no range is coil.
C20_SheetOverHelix ==
    pcParse = "header" =>
        \A i \in 1..Len(residues) :
            residues[i].secondaryStructure =
                IF InRange(residues[i], sheets) THEN "sheet"
                ELSE IF InRange(residues[i], helices) THEN "helix"
                ELSE "coil"

\* after the header pass chain A holds a helix residue, a residue in both
\* ranges, and chain B a residue with a sequence number of the HELIX range
C20_Witness ==
    /\ pcParse = "header"
    /\ \E i, j, k \in 1..Len(residues) :
          /\ InRange(residues[i], helices) /\ ~InRange(residues[i], sheets)
          /\ residues[i].secondaryStructure = "helix"
          /\ InRange(residues[j], helices) /\ InRange(residues[j], sheets)
          /\ residues[j].secondaryStructure = "sheet"
          /\ residues[k].chainId # residues[i].chainId
          /\ residues[k].resSeq = residues[i].resSeq
          /\ residues[k].secondaryStructure = "coil"

(***************************************************************************)
(* Frames across run boundaries                                            *)
(***************************************************************************)
\* C21: the normals of the last frame of a run and of the first frame of
\* the next run of the same chain have a non-negative dot product.
C21_BoundaryConsistent ==
    pcFrames = "done" =>
        \A g \in 1..(Len(curveFrames) - 1) :
            Dot(curveFrames[g][Len(curveFrames[g])].normal,
                curveFrames[g + 1][1].normal) >= 0

(***************************************************************************)
(* Control points read by getPointAt                                       *)
(***************************************************************************)
\* C22: with 4 control points or more getPointAt reads the four control
\* points startIndex..startIndex+3, 0 <= startIndex <= numPoints-4, where
\* startIndex is floor(t*(numPoints-3)) for the clamped t, clamped to that
\* range; with fewer it reads the first control point only, or none when
\* there is none.
C22_ReadsInRange ==
    pcSpline = "done" =>
        LET numPoints == Len(controlPoints)
            t == IF tQuery < 0 THEN 0 ELSE IF tQuery > TUnit THEN TUnit ELSE tQuery
            floorSpan == CHOOSE k \in 0..numPoints :
                            k * TUnit <= t * (numPoints - 3) /\ t * (numPoints - 3) < (k + 1) * TUnit
            startIndex == IF floorSpan > numPoints - 4 THEN numPoints - 4 ELSE floorSpan
        IN /\ \A k \in 1..Len(pointAt.read) :
                 0 <= pointAt.read[k] /\ pointAt.read[k] < numPoints
           /\ numPoints >= 4 =>
                 pointAt.read = <<startIndex, startIndex + 1, startIndex + 2, startIndex + 3>>
           /\ (numPoints < 4 /\ numPoints > 0) => pointAt.read = <<0>>
           /\ numPoints = 0 => pointAt.read = <<>>

\* getPointAt was asked for a t above 1 on a curve of more than 4 control
\* points and read the last four
C22_Witness ==
    /\ pcSpline = "done"
    /\ tQuery > TUnit
    /\ Len(controlPoints) > 4
    /\ pointAt.read[4] = Len(controlPoints) - 1

(***************************************************************************)
(* Curve position selected by getPointAt                                   *)
(***************************************************************************)
\* span start index plus local parameter, in TUnit-ths
CurvePosition(result) == result.read[1] * TUnit + result.localT

\* C26: with 4 control points or more the curve position selected by
\* getPointAt is non-decreasing in t over [0,1], and at t = 1 it is the end
\* of the last span: start index numPoints-4, local parameter 1.
C26_PositionMonotone ==
    (pcSpline = "done" /\ Len(controlPoints) >= 4 /\ tQuery \in 0..TUnit) =>
        /\ \A t \in 0..tQuery :
              CurvePosition(getPointAt(Len(controlPoints), t, TUnit)) <= CurvePosition(pointAt)
        /\ tQuery = TUnit =>
              /\ pointAt.read[1] = Len(controlPoints) - 4
              /\ pointAt.localT = TUnit

(***************************************************************************)
(* Tangent cache                                                           *)
(***************************************************************************)
\* C23: whatever setControlPoints, addControlPoint and getTangentAt calls
\* were made, the tangent getTangentAt(t) returns is the tangent of the
\* curve's current control points at a t of the same quantized key.
C23_CacheCoherent ==
    (Len(splineLog) > 0 /\ splineLog[Len(splineLog)].op = "getTangentAt") =>
        LET curve == splineCurves[lastTangent.curve]
            points == arrays[curve.controlPoints]
        IN \E t \in CacheTs :
              /\ cacheKey(t) = cacheKey(lastTangent.t)
              /\ lastTangent.tangent = ComputedTangent(points, t)

(***************************************************************************)
(* Ribbon segment meshes                                                   *)
(***************************************************************************)
\* the ring a vertex index of a mesh belongs to
RingOf(mesh, index) == mesh.positions[index + 1].ring

\* C24: in every mesh createSegmentMesh makes, also of rings with different
\* profile point counts, every triangle index is below the number of
\* vertices and the three vertices of a triangle lie on two adjacent rings.
C24_TrianglesOnAdjacentRings ==
    \A m \in 1..Len(ribbonMeshes) :
        LET mesh == ribbonMeshes[m]
        IN \A t \in 0..(Len(mesh.indices) \div 3 - 1) :
              LET corners == {mesh.indices[3 * t + k] : k \in 1..3}
              IN /\ \A c \in corners : c < Len(mesh.positions)
                 /\ \E i \in 0..SegmentLength :
                       \A c \in corners : RingOf(mesh, c) \in {i, i + 1}

(***************************************************************************)
(* Handedness of the frames                                                *)
(***************************************************************************)
\* C25: when every frame given to minimizeFrameTwisting is orthonormal and
\* right-handed (binormal = tangent x normal), every frame is so after it.
C25_HandednessKept ==
    (pcFrames = "done" /\ \A i \in 1..Len(framesIn) : RightHanded(framesIn[i])) =>
        \A i \in 1..Len(frames) : RightHanded(frames[i])

(***************************************************************************)
(* addProtein that fails                                                   *)
(***************************************************************************)
\* C27: whenever addProtein returns false, the map of loaded proteins holds
\* the same filenames with the same protein data as before the call.
C27_FailureKeepsProteins ==
    [][(Len(calls') = Len(calls) + 1 /\ added' = "false") => proteins' = proteins]_vars

(***************************************************************************)
(* Residue classes                                                         *)
(***************************************************************************)
\* C28: of isProtein, isNucleic and isWater at most one is true for every
\* parsed residue, and a residue named HOH or WAT is water and not protein.
C28_ResidueClassExclusive ==
    \A i \in 1..Len(residues) :
        LET r == residues[i]
        IN /\ Cardinality({k \in {"isProtein", "isNucleic", "isWater"} : r[k]}) <= 1
           /\ r.resName \in {"HOH", "WAT"} => (r.isWater /\ ~r.isProtein)

(***************************************************************************)
(* Arc-length parameter                                                    *)
(***************************************************************************)
\* a number in [0, 1]
InUnitInterval(p) == ~p.nan /\ p.den > 0 /\ 0 <= p.num /\ p.num <= p.den

\* p <= q for numbers with positive denominators
ParameterLeq(p, q) == p.num * q.den <= q.num * p.den

\* C29: getParameterByArcLength returns a number in [0, 1] for every target
\* length >= 0 and every curve, also one with chords of length zero; it is
\* non-decreasing in the target length and 1 when the target length exceeds
\* the total length; sampleUniform(n >= 2) evaluates the curve at
\* parameters in [0, 1] only.
C29_ParameterInUnitInterval ==
    /\ pcArc = "parameter" =>
          /\ InUnitInterval(arcParameter)
          /\ arcTarget > getArcLength(arcChords) => arcParameter.num = arcParameter.den
          /\ \A longer \in arcTarget..(MaxSubdivisions * MaxChord + 1) :
                LET q == getParameterByArcLength(arcChords, longer, 1)
                IN InUnitInterval(q) /\ ParameterLeq(arcParameter, q)
    /\ pcArc = "samples" =>
          \A k \in 1..Len(arcSamples) : InUnitInterval(arcSamples[k])

====
